---- MODULE Spec2Model ----
(***************************************************************************)
(* Model of cmany's configuration cache (c4/cmany/cmake_sysinfo.py) and of *)
(* the Build lifecycle (c4/cmany/build.py).                                *)
(*                                                                         *)
(* Text is modelled as a sequence of atoms.  The atoms ":", "=" and "\n"   *)
(* and the two path separators are the characters the code inspects; every *)
(* other atom stands for a run of ordinary characters.                     *)
(***************************************************************************)
EXTENDS Integers, Sequences, FiniteSets, TLC

VARIABLES fs, windows, varcache, base, forced, ret, bld, cmdlog, mat, gf, proj,
          process

vars == <<fs, windows, varcache, base, forced, ret, bld, cmdlog, mat, gf, proj,
          process>>

(***************************************************************************)
(* Bounds of the model.                                                    *)
(***************************************************************************)
MaxLines == 2
MaxCmds == 6
MaxBuilds == 2

(***************************************************************************)
(* Text helpers.                                                           *)
(***************************************************************************)
COLON == ":"
EQ == "="
NL == "\n"
BSL == "\\"
SL == "/"

\* position of the first c in s at or after from, 0 when there is none
FirstFrom(s, c, from) ==
    IF \E j \in from..Len(s) : s[j] = c
    THEN CHOOSE j \in from..Len(s) : s[j] = c /\ \A k \in from..(j - 1) : s[k] # c
    ELSE 0

\* str.startswith
StartsWith(s, p) ==
    Len(p) <= Len(s) /\ SubSeq(s, 1, Len(p)) = p

\* str.strip() on a line read from the file: drops the line terminator
Strip(l) ==
    IF Len(l) > 0 /\ l[Len(l)] = NL THEN SubSeq(l, 1, Len(l) - 1) ELSE l

\* what follows the part of a line that '.' and '$' can cover
LineEnd(l) ==
    IF Len(l) > 0 /\ l[Len(l)] = NL THEN <<NL>> ELSE <<>>

\* re.sub(r'\\', r'/', val)
ToForwardSlashes(val) ==
    [i \in 1..Len(val) |-> IF val[i] = BSL THEN SL ELSE val[i]]

\* _cache_entry: group 1 is the text before the first colon that has an
\* equals sign after it, group 2 runs from that colon up to the first equals
\* sign after it, group 3 is the rest of the line up to its terminator.
EntryColon(l) == FirstFrom(Strip(l), COLON, 1)

EntryEq(l) ==
    IF EntryColon(l) = 0 THEN 0 ELSE FirstFrom(Strip(l), EQ, EntryColon(l) + 1)

\* re.match(_cache_entry, line)
cache_entry_match(l) == EntryEq(l) # 0

Group1(l) == SubSeq(Strip(l), 1, EntryColon(l) - 1)
Group2(l) == SubSeq(Strip(l), EntryColon(l), EntryEq(l) - 1)
Group3(l) == SubSeq(Strip(l), EntryEq(l) + 1, Len(Strip(l)))

(***************************************************************************)
(* Files and directories.                                                  *)
(***************************************************************************)
NoFile == [present |-> FALSE, lines |-> <<>>]
File(ls) == [present |-> TRUE, lines |-> ls]

Dirs == {"bd", "dep", "dep2"}
None == "None"

\* a directory with its CMakeCache.txt, the preload file and the sentinels
\* cmany_configure.done, cmany_build.done and cmany_deps.done
NoDir ==
    [exists |-> FALSE, cachefile |-> NoFile, preload |-> NoFile,
     cfgdone |-> NoFile, builddone |-> NoFile, depsdone |-> NoFile]
EmptyDir == [NoDir EXCEPT !.exists = TRUE]

\* os.path.exists(builddir)
DirExists(f, d) == d # None /\ f[d].exists

\* os.path.exists(os.path.join(builddir, 'CMakeCache.txt'))
CacheFileExists(f, d) == DirExists(f, d) /\ f[d].cachefile.present

(***************************************************************************)
(* CMakeCache.Var                                                          *)
(***************************************************************************)
Var(name, val, vartype, dirty, from_input) ==
    [name |-> name, val |-> val, vartype |-> vartype,
     dirty |-> dirty, from_input |-> from_input]

\* str(Var): name + ':' + vartype + '=' + val
VarStr(v) == v.name \o <<COLON>> \o v.vartype \o <<EQ>> \o v.val

reset_always_dirty(v, val, vartype, force_dirty, fi) ==
    LET v1 == IF fi # "none" THEN [v EXCEPT !.from_input = (fi = "true")] ELSE v
    IN  [var |-> [v1 EXCEPT !.val = val, !.vartype = vartype, !.dirty = TRUE],
         changed |-> TRUE]

\* Var.reset: fi is "none" when from_input is not passed
reset(v, val, vartype, force_dirty, fi) ==
    LET v1 == IF fi # "none" THEN [v EXCEPT !.from_input = (fi = "true")] ELSE v
    IN  IF val # v1.val \/ vartype # v1.vartype
        THEN [var |-> [v1 EXCEPT !.val = val, !.vartype = vartype, !.dirty = TRUE],
              changed |-> TRUE]
        ELSE [var |-> IF force_dirty THEN [v1 EXCEPT !.dirty = TRUE] ELSE v1,
              changed |-> force_dirty]

(***************************************************************************)
(* CMakeCache: an ordered mapping (the sequence vars) and the aggregate    *)
(* dirty flag.                                                             *)
(***************************************************************************)
\* odict.get(name): the position of the variable, 0 for None
Get(c, name) ==
    IF \E i \in 1..Len(c.vars) : c.vars[i].name = name
    THEN CHOOSE i \in 1..Len(c.vars) : c.vars[i].name = name
    ELSE 0

\* v[name] = Var(...) on an odict: replaces in place or appends
Put(vs, v) ==
    IF \E i \in 1..Len(vs) : vs[i].name = v.name
    THEN [i \in 1..Len(vs) |-> IF vs[i].name = v.name THEN v ELSE vs[i]]
    ELSE Append(vs, v)

RECURSIVE LoadLines(_, _)
LoadLines(ls, acc) ==
    IF ls = <<>> THEN acc
    ELSE LET l == Head(ls)
         IN  IF ~cache_entry_match(l)
             THEN LoadLines(Tail(ls), acc)
             ELSE LoadLines(Tail(ls),
                      Put(acc, Var(Group1(l), Group3(l), Tail(Group2(l)), FALSE, FALSE)))

loadvars(f, builddir) ==
    IF builddir = None \/ ~DirExists(f, builddir) THEN <<>>
    ELSE IF CacheFileExists(f, builddir)
         THEN LoadLines(f[builddir].cachefile.lines, <<>>)
         ELSE <<>>

CMakeCache_marked_dirty(f, builddir) ==
    [vars |-> loadvars(f, builddir), dirty |-> loadvars(f, builddir) # <<>>]

\* CMakeCache.__init__
CMakeCache(f, builddir) == [vars |-> loadvars(f, builddir), dirty |-> FALSE]

setvar_no_aggregate(c, name, val, vartype, force_dirty, fi) ==
    LET i == Get(c, name)
    IN  IF i # 0
        THEN LET r == reset(c.vars[i], val, vartype, force_dirty, fi)
             IN  [cache |-> [vars |-> [c.vars EXCEPT ![i] = r.var],
                             dirty |-> c.dirty],
                  ret |-> r.changed]
        ELSE [cache |-> [vars |-> Append(c.vars, Var(name, val, vartype, TRUE, FALSE)),
                         dirty |-> TRUE],
              ret |-> TRUE]

setvar(c, name, val, vartype, force_dirty, fi) ==
    LET i == Get(c, name)
    IN  IF i # 0
        THEN LET r == reset(c.vars[i], val, vartype, force_dirty, fi)
             IN  [cache |-> [vars |-> [c.vars EXCEPT ![i] = r.var],
                             dirty |-> c.dirty \/ r.changed],
                  ret |-> r.changed]
        ELSE [cache |-> [vars |-> Append(c.vars, Var(name, val, vartype, TRUE, FALSE)),
                         dirty |-> TRUE],
              ret |-> TRUE]

\* the typed setters b, s, p, f, i
TypeOf(kind) ==
    CASE kind = "b" -> <<"BOOL">>
      [] kind = "s" -> <<"STRING">>
      [] kind = "p" -> <<"PATH">>
      [] kind = "f" -> <<"FILEPATH">>
      [] kind = "i" -> <<"INTERNAL">>

typed_set(c, win, kind, name, val, force_dirty, fi) ==
    LET v == IF kind \in {"p", "f"} /\ win THEN ToForwardSlashes(val) ELSE val
    IN  setvar(c, name, v, TypeOf(kind), force_dirty, fi)

(***************************************************************************)
(* setcachevars: rewrite of CMakeCache.txt.  varvalues is the ordered list *)
(* of <<name, value>> pairs.  Values never hold a backslash here (paths    *)
(* are normalised by p/f on the platform whose paths have them), so the    *)
(* replacement template r'\1\2=' + v has no escapes inside v.              *)
(***************************************************************************)
SubEntry(l, v) ==
    IF cache_entry_match(l)
    THEN Group1(l) \o Group2(l) \o <<EQ>> \o v \o LineEnd(l)
    ELSE l

RECURSIVE RewriteLine(_, _)
RewriteLine(l, varvalues) ==
    IF varvalues = <<>> THEN l
    ELSE LET kv == Head(varvalues)
         IN  RewriteLine(IF StartsWith(l, kv[1] \o <<COLON>>) THEN SubEntry(l, kv[2]) ELSE l,
                         Tail(varvalues))

setcachevars(f, builddir, varvalues) ==
    LET ilines == f[builddir].cachefile.lines
        olines == [i \in 1..Len(ilines) |-> RewriteLine(ilines[i], varvalues)]
    IN  [f EXCEPT ![builddir].cachefile = File(olines)]

RECURSIVE DirtyPairs(_)
DirtyPairs(vs) ==
    IF vs = <<>> THEN <<>>
    ELSE IF Head(vs).dirty
         THEN <<<<Head(vs).name, Head(vs).val>>>> \o DirtyPairs(Tail(vs))
         ELSE DirtyPairs(Tail(vs))

commit_unguarded(c, f, builddir) ==
    IF ~c.dirty \/ builddir = None \/ ~DirExists(f, builddir)
    THEN [cache |-> c, fs |-> f, ret |-> FALSE, wrote |-> FALSE]
    ELSE [cache |-> [vars |-> [i \in 1..Len(c.vars) |-> [c.vars[i] EXCEPT !.dirty = FALSE]],
                     dirty |-> FALSE],
          fs |-> IF CacheFileExists(f, builddir)
                 THEN setcachevars(f, builddir, DirtyPairs(c.vars))
                 ELSE f,
          ret |-> TRUE, wrote |-> CacheFileExists(f, builddir)]

commit_keeps_var_flags(c, f, builddir) ==
    IF ~c.dirty \/ builddir = None \/ ~DirExists(f, builddir)
       \/ ~CacheFileExists(f, builddir)
    THEN [cache |-> c, fs |-> f, ret |-> FALSE, wrote |-> FALSE]
    ELSE [cache |-> [vars |-> c.vars, dirty |-> FALSE],
          fs |-> setcachevars(f, builddir, DirtyPairs(c.vars)),
          ret |-> TRUE, wrote |-> TRUE]

\* CMakeCache.commit
commit(c, f, builddir) ==
    IF ~c.dirty \/ builddir = None \/ ~DirExists(f, builddir)
       \/ ~CacheFileExists(f, builddir)
    THEN [cache |-> c, fs |-> f, ret |-> FALSE, wrote |-> FALSE]
    ELSE [cache |-> [vars |-> [i \in 1..Len(c.vars) |-> [c.vars[i] EXCEPT !.dirty = FALSE]],
                     dirty |-> FALSE],
          fs |-> setcachevars(f, builddir, DirtyPairs(c.vars)),
          ret |-> TRUE, wrote |-> TRUE]

(***************************************************************************)
(* Build (c4/cmany/build.py).  A Build object is a record of its paths and *)
(* settings; the build directory of the Build is "bd", the one of its      *)
(* dependency copy is "dep" (builddir/cmany_deps-build) and the one nested *)
(* in that is "dep2"; the nesting is followed no deeper.  The cache, the   *)
(* generator and the files are shared and travel in the world record w:    *)
(*   fs, cache   the files and the CMakeCache of the Build                 *)
(*   log         the external commands run so far, each with its outcome   *)
(*   n, fail     the number of commands run and the numbers of those that  *)
(*               exit non-zero                                             *)
(*   raised      an exception is propagating                               *)
(*   genbuild    the Build the shared generator refers to                  *)
(***************************************************************************)
PathSep(win) == IF win THEN BSL ELSE SL

\* os.path.join(root, tag) as the platform spells it
JoinPath(win, root, tag) == <<root, PathSep(win), tag>>

BuildDirPath(win) == JoinPath(win, "buildroot", "tag")
InstallDirPath(win) == JoinPath(win, "installroot", "tag")
DepsPrefixPath(win) == JoinPath(win, "depsroot", "prefix")

\* Build.__init__: the paths and the dependency settings
Self(bl, win) ==
    [who |-> "self", builddir |-> "bd", cachefile |-> "bd", preload |-> "bd",
     projdir |-> "proj", installdir |-> InstallDirPath(win),
     deps |-> bl.deps, win |-> win,
     deps_prefix |-> IF bl.prefix = "given" THEN DepsPrefixPath(win)
                     ELSE BuildDirPath(win),
     msvc |-> bl.msvc]

\* os.path.join(self.builddir, 'cmany_deps-build')
Nested(d) == IF d = "bd" THEN "dep" ELSE "dep2"

Dup_keeps_deps(b) ==
    [b EXCEPT !.who = "dup", !.builddir = Nested(b.builddir),
              !.installdir = b.deps_prefix, !.projdir = "depsrc"]

\* handle_deps: dup = copy.copy(self) and the attributes it overrides; the
\* preload path is os.path.join(builddir, <absolute path>), the same file
Dup(b) ==
    [b EXCEPT !.who = "dup", !.builddir = Nested(b.builddir),
              !.installdir = b.deps_prefix, !.projdir = "depsrc", !.deps = FALSE]

World(f, c, fail, gb) ==
    [fs |-> f, cache |-> c, log |-> <<>>, n |-> 0, fail |-> fail,
     raised |-> FALSE, genbuild |-> gb]

\* the commands handed to runsyscmd
ConfigureCmd(b) ==
    [kind |-> "configure", cwd |-> b.builddir, proj |-> b.projdir,
     preload |-> b.preload, target |-> "", gen |-> "self"]
GeneratorCmd(b, w, t) ==
    [kind |-> "build", cwd |-> b.builddir, proj |-> b.projdir,
     preload |-> b.preload, target |-> t, gen |-> w.genbuild]
GeneratorInstall(b, w) ==
    [kind |-> "install", cwd |-> b.builddir, proj |-> b.projdir,
     preload |-> b.preload, target |-> "install", gen |-> w.genbuild]

\* the record the tool writes for a directive _cmany_set(name "value" type)
ToolRecord(name, val, vartype) ==
    name \o <<COLON>> \o vartype \o <<EQ>> \o val \o <<NL>>

\* the variables the tool itself defines, with its own defaults
ToolDefaults ==
    << <<<<"CMAKE_BUILD_TYPE">>, <<>>, <<"STRING">>>>,
       <<<<"CMAKE_INSTALL_PREFIX">>, <<"/usr/local">>, <<"PATH">>>> >>

RECURSIVE AddMissing(_, _)
AddMissing(lines, directives) ==
    IF directives = <<>> THEN lines
    ELSE LET dct == Head(directives)
             has == \E k \in 1..Len(lines) :
                       cache_entry_match(lines[k]) /\ Group1(lines[k]) = dct[1]
         IN  AddMissing(IF has THEN lines
                        ELSE Append(lines, ToolRecord(dct[1], dct[2], dct[3])),
                        Tail(directives))

\* a successful configure run of the tool in directory d: set(... CACHE ...)
\* of the preload script defines the entries the cache does not have yet,
\* then the tool adds its own; CMakeCache.txt exists afterwards
ToolConfigure(f, cmd) ==
    LET old == f[cmd.cwd].cachefile.lines
        pre == f[cmd.preload].preload.lines
    IN  [f EXCEPT ![cmd.cwd].cachefile =
            File(AddMissing(AddMissing(old, pre), ToolDefaults))]

runsyscmd_never_raises(w, cmd) ==
    LET k == w.n + 1
        ok == k \notin w.fail
    IN  [w EXCEPT !.n = k,
                  !.log = Append(@, [cmd |-> cmd, ok |-> ok,
                                     seen |-> IF cmd.kind = "configure"
                                              THEN w.fs[cmd.preload].preload
                                              ELSE NoFile]),
                  !.fs = IF ok /\ cmd.kind = "configure"
                         THEN ToolConfigure(w.fs, cmd) ELSE @]

\* util.runsyscmd: raises when the command exits non-zero; the log keeps,
\* for a configure command, the preload file as the tool finds it (-C)
runsyscmd(w, cmd) ==
    LET k == w.n + 1
        ok == k \notin w.fail
    IN  [w EXCEPT !.n = k,
                  !.log = Append(@, [cmd |-> cmd, ok |-> ok,
                                     seen |-> IF cmd.kind = "configure"
                                              THEN w.fs[cmd.preload].preload
                                              ELSE NoFile]),
                  !.raised = ~ok,
                  !.fs = IF ok /\ cmd.kind = "configure"
                         THEN ToolConfigure(w.fs, cmd) ELSE @]

create_dir(b, w) ==
    IF ~DirExists(w.fs, b.builddir)
    THEN [w EXCEPT !.fs[b.builddir] = EmptyDir]
    ELSE w

\* the value of F at v, v being evaluated once
Bind(v, F(_)) == CHOOSE r \in {F(x) : x \in {v}} : TRUE

\* the next statement F in world w: skipped while an exception propagates
Step(w, F(_)) ==
    CHOOSE r \in {IF x.raised THEN x ELSE F(x) : x \in {w}} : TRUE

RECURSIVE InputDirectives(_)
InputDirectives(vs) ==
    IF vs = <<>> THEN <<>>
    ELSE IF Head(vs).from_input
         THEN <<<<Head(vs).name, Head(vs).val, Head(vs).vartype>>>>
                  \o InputDirectives(Tail(vs))
         ELSE InputDirectives(Tail(vs))

create_preload_file_if_absent(b, w) ==
    Bind(create_dir(b, w),
         LAMBDA x : IF x.fs[b.preload].preload.present THEN x
                    ELSE [x EXCEPT !.fs[b.preload].preload =
                                      File(InputDirectives(x.cache.vars))])

\* the file holds one _cmany_set directive per variable that is from_input
create_preload_file(b, w) ==
    Bind(create_dir(b, w),
         LAMBDA x : [x EXCEPT !.fs[b.preload].preload =
                                 File(InputDirectives(x.cache.vars))])

mark_configure_done(b, w, cmd) ==
    [w EXCEPT !.fs[b.builddir].cfgdone = File(<<cmd>>)]

mark_build_done(b, w, cmd) ==
    [w EXCEPT !.fs[b.builddir].builddone = File(<<cmd>>)]

deps_done_never(b, w) == FALSE

deps_done(b, w) == DirExists(w.fs, b.builddir) /\ w.fs[b.builddir].depsdone.present

mark_deps_done(b, w) ==
    [w EXCEPT !.fs[b.builddir].depsdone =
        File((IF b.deps THEN <<<<"depsrc">>>> ELSE <<>>) \o <<b.deps_prefix>>)]

needs_cache_regeneration(b, w) ==
    CacheFileExists(w.fs, b.cachefile) /\ w.cache.dirty

needs_configure_ignores_cache(b, w) ==
    IF ~DirExists(w.fs, b.builddir) THEN TRUE
    ELSE ~w.fs[b.builddir].cfgdone.present

needs_configure(b, w) ==
    IF ~DirExists(w.fs, b.builddir) THEN TRUE
    ELSE IF ~w.fs[b.builddir].cfgdone.present THEN TRUE
    ELSE needs_cache_regeneration(b, w)

needs_build(b, w) ==
    IF ~DirExists(w.fs, b.builddir) THEN TRUE
    ELSE IF ~w.fs[b.builddir].builddone.present THEN TRUE
    ELSE needs_cache_regeneration(b, w)

\* the loop of build() over the targets; the sentinel records the last command
RECURSIVE run_targets(_, _, _)
run_targets(b, w, targets) ==
    Step(w, LAMBDA x :
        Step(runsyscmd(x, GeneratorCmd(b, x, Head(targets))), LAMBDA y :
            IF Len(targets) = 1
            THEN mark_build_done(b, y, GeneratorCmd(b, y, Head(targets)))
            ELSE run_targets(b, y, Tail(targets))))

\* targets = ["ALL_BUILD"] or ["all"] when none is given
default_targets(b, targets) ==
    IF Len(targets) = 0
    THEN IF b.msvc THEN <<"ALL_BUILD">> ELSE <<"all">>
    ELSE targets

commit_never(b, w) == w

\* self.varcache.commit(self.builddir) under needs_cache_regeneration()
commit_if_needed(b, w) ==
    IF needs_cache_regeneration(b, w)
    THEN Bind(commit(w.cache, w.fs, b.builddir),
              LAMBDA r : [w EXCEPT !.cache = r.cache, !.fs = r.fs])
    ELSE w

\* runsyscmd(cmd) and mark_configure_done(cmd)
run_configure(b, w) ==
    Step(runsyscmd(w, ConfigureCmd(b)),
         LAMBDA y : mark_configure_done(b, y, ConfigureCmd(b)))

\* self.varcache.p('CMAKE_PREFIX_PATH', self.installdir)
set_prefix_path(b, w) ==
    [w EXCEPT !.cache = typed_set(w.cache, b.win, "p", <<"CMAKE_PREFIX_PATH">>,
                                  b.installdir, FALSE, "none").cache]

RECURSIVE configure(_, _)
RECURSIVE build(_, _, _)
RECURSIVE install(_, _)
RECURSIVE handle_deps(_, _)

\* a Build nested deeper than "dep2" is not followed: the call raises there
handle_deps_install_raises(b, w) ==
    Step(w, LAMBDA x0 :
        IF deps_done(b, x0) THEN x0
        ELSE IF ~b.deps THEN mark_deps_done(b, x0)
        ELSE IF b.builddir = "dep2" THEN [x0 EXCEPT !.raised = TRUE]
        ELSE Step(Step(Step(Step([x0 EXCEPT !.genbuild = "dup"],
                 LAMBDA x : configure(Dup(b), x)),
                 LAMBDA x : build(Dup(b), x, <<>>)),
                 LAMBDA x : install(Dup(b), x)),
                 LAMBDA x : mark_deps_done(b, set_prefix_path(b, x))))

handle_deps(b, w) ==
    Step(w, LAMBDA x0 :
        IF deps_done(b, x0) THEN x0
        ELSE IF ~b.deps THEN mark_deps_done(b, x0)
        ELSE IF b.builddir = "dep2" THEN [x0 EXCEPT !.raised = TRUE]
        ELSE Step(Step(Step(Step([x0 EXCEPT !.genbuild = "dup"],
                 LAMBDA x : configure(Dup(b), x)),
                 LAMBDA x : build(Dup(b), x, <<>>)),
                 \* try: dup.install() except: pass
                 LAMBDA x : [install(Dup(b), x) EXCEPT !.raised = FALSE]),
                 LAMBDA x : mark_deps_done(b, set_prefix_path(b, x))))

configure_deps_last(b, w) ==
    Step(Step(Step(Step(w,
        LAMBDA x : create_preload_file(b, create_dir(b, x))),
        LAMBDA x : commit_if_needed(b, x)),
        LAMBDA x : runsyscmd(x, ConfigureCmd(b))),
        LAMBDA x : Step(handle_deps(b, x),
                        LAMBDA y : mark_configure_done(b, y, ConfigureCmd(b))))

configure(b, w) ==
    Step(Step(Step(Step(w,
        LAMBDA x : create_preload_file(b, create_dir(b, x))),
        LAMBDA x : handle_deps(b, x)),
        LAMBDA x : commit_if_needed(b, x)),
        LAMBDA x : run_configure(b, x))

build_no_configure(b, w, targets) ==
    Step(Step(Step(w,
        LAMBDA x : create_dir(b, x)),
        LAMBDA x : handle_deps(b, x)),
        LAMBDA x : run_targets(b, x, default_targets(b, targets)))

build(b, w, targets) ==
    Step(Step(Step(Step(w,
        LAMBDA x : create_dir(b, x)),
        LAMBDA x : IF needs_configure(b, x) THEN configure(b, x) ELSE x),
        LAMBDA x : handle_deps(b, x)),
        LAMBDA x : run_targets(b, x, default_targets(b, targets)))

install_without_build(b, w) ==
    Step(Step(w,
        LAMBDA x : create_dir(b, x)),
        LAMBDA x : runsyscmd(x, GeneratorInstall(b, x)))

install(b, w) ==
    Step(Step(Step(w,
        LAMBDA x : create_dir(b, x)),
        LAMBDA x : IF needs_build(b, x) THEN build(b, x, <<>>) ELSE x),
        LAMBDA x : runsyscmd(x, GeneratorInstall(b, x)))

clean_keeps_sentinel(b, w) ==
    Step(Step(Step(w,
        LAMBDA x : create_dir(b, x)),
        LAMBDA x : runsyscmd(x, GeneratorCmd(b, x, "clean"))),
        LAMBDA x : IF ~x.fs[b.builddir].builddone.present
                   THEN [x EXCEPT !.raised = TRUE]
                   ELSE x)

\* os.remove raises when cmany_build.done is not there
clean(b, w) ==
    Step(Step(Step(w,
        LAMBDA x : create_dir(b, x)),
        LAMBDA x : runsyscmd(x, GeneratorCmd(b, x, "clean"))),
        LAMBDA x : IF ~x.fs[b.builddir].builddone.present
                   THEN [x EXCEPT !.raised = TRUE]
                   ELSE [x EXCEPT !.fs[b.builddir].builddone = NoFile])

\* gather_input_cache_vars: the compilers unless the generator is the IDE
\* one, the build type, the install prefix and the merged flags
SetInput(c, win, kind, name, val) ==
    typed_set(c, win, kind, name, val, FALSE, "true").cache

gather_input_cache_vars(c, b, flags) ==
    Bind(Bind(Bind(Bind(Bind(Bind(c,
        LAMBDA x : IF ~b.msvc
                   THEN SetInput(x, b.win, "f", <<"CMAKE_C_COMPILER">>, <<"cc">>)
                   ELSE x),
        LAMBDA x : IF ~b.msvc
                   THEN SetInput(x, b.win, "f", <<"CMAKE_CXX_COMPILER">>, <<"cxx">>)
                   ELSE x),
        LAMBDA x : SetInput(x, b.win, "s", <<"CMAKE_BUILD_TYPE">>, <<"Release">>)),
        LAMBDA x : SetInput(x, b.win, "p", <<"CMAKE_INSTALL_PREFIX">>, b.installdir)),
        LAMBDA x : IF flags # <<>>
                   THEN SetInput(x, b.win, "s", <<"CMAKE_C_FLAGS">>, flags)
                   ELSE x),
        LAMBDA x : IF flags # <<>>
                   THEN SetInput(x, b.win, "s", <<"CMAKE_CXX_FLAGS">>, flags)
                   ELSE x)

(***************************************************************************)
(* Inputs of the cache specification.                                      *)
(***************************************************************************)
Names == {<<"A">>, <<"B">>}
RawVals == {<<"x">>, <<"y">>}
RawTypes == {<<"STRING">>}
\* a directory path as the platform spells it
PathVals(win) == IF win THEN {<<"d", BSL, "e">>} ELSE {<<"d", SL, "e">>}
\* the variables and the values each typed setter is called with: the path
\* setters on the path variable B, the others on A
TypedNames(kind) == IF kind \in {"p", "f"} THEN {<<"B">>} ELSE {<<"A">>}
TypedVals(kind, win) ==
    IF kind \in {"p", "f"} THEN PathVals(win) ELSE {<<"x">>}
FromInputArgs == {"none", "true"}

\* lines a CMakeCache.txt is made of: a comment, records, a record that
\* repeats a name, and a last line without terminator
SampleLines ==
    << <<"#", NL>>,
       <<"B", COLON, "PATH", EQ, "d", SL, "e", NL>>,
       <<"A", COLON, "STRING", EQ, "x", NL>>,
       <<"A", COLON, "STRING", EQ, "y">> >>

InitFiles ==
    {SubSeq(SampleLines, i, j) :
        i \in 1..Len(SampleLines), j \in 0..Len(SampleLines)} \cap
    {ls \in Seq({SampleLines[k] : k \in 1..Len(SampleLines)}) : Len(ls) <= MaxLines}

InitDirs ==
    {EmptyDir} \cup {[EmptyDir EXCEPT !.cachefile = File(ls)] : ls \in InitFiles}

DirArgs == Dirs \cup {None}

(***************************************************************************)
(* History: the last call with its result, the on-disk records as they     *)
(* were when the cache was last loaded or committed, and the variables set *)
(* with force_dirty since then.                                            *)
(***************************************************************************)
Ret(op, res, wrote) == [op |-> op, res |-> res, wrote |-> wrote]

NoRet == Ret("init", FALSE, FALSE)

\* no project matrix is involved when one cache or one Build is followed
NoMatrix == [impl |-> "none", names |-> <<>>, builds |-> <<>>]

\* no project is involved when the cache, one Build, the matrix or the flags
\* are followed
NoProject == [built |-> FALSE, raised |-> FALSE, builds |-> <<>>]

\* no directory is changed into when anything but cwd_back is followed
NoProcess == [cwd |-> <<>>, stack |-> <<>>, out |-> <<>>, raising |-> FALSE]

\* no flags are gathered when the cache, one Build or the matrix is followed
NoGather == [flagseq |-> <<>>, msvc |-> FALSE, sysinfo |-> [ok |-> FALSE, val |-> ""],
             call |-> [which |-> "", sysvar |-> FALSE, with_defines |-> FALSE],
             flags |-> <<>>]

\* no Build is involved when the cache is used on its own
NoBuild == [msvc |-> FALSE, deps |-> FALSE, prefix |-> "default", flags |-> <<>>,
            genbuild |-> "self"]

\* the on-disk records of a directory, as <<name, value, type>> facts
OnDisk(f, d) ==
    LET vs == loadvars(f, d)
    IN  {<<vs[i].name, vs[i].val, vs[i].vartype>> : i \in 1..Len(vs)}

(***************************************************************************)
(* The cache used as a library: load, setvar and the typed setters, commit *)
(***************************************************************************)
InitCache ==
    /\ windows \in BOOLEAN
    /\ \E b \in InitDirs : fs = [x \in Dirs |-> IF x = "bd" THEN b ELSE NoDir]
    /\ varcache = CMakeCache(fs, "bd")
    /\ base = OnDisk(fs, "bd")
    /\ forced = {}
    /\ ret = NoRet
    /\ bld = NoBuild
    /\ cmdlog = <<>>
    /\ mat = NoMatrix
    /\ gf = NoGather
    /\ proj = NoProject
    /\ process = NoProcess

\* CMakeCache(builddir)
Load(d) ==
    /\ varcache' = CMakeCache(fs, d)
    /\ base' = OnDisk(fs, d)
    /\ forced' = {}
    /\ ret' = Ret("load", TRUE, FALSE)
    /\ UNCHANGED <<fs, windows, bld, cmdlog, mat, gf, proj, process>>

\* CMakeCache.setvar(name, val, vartype, force_dirty=.., from_input=..)
SetVar(name, val, vartype, force, fi) ==
    LET r == setvar(varcache, name, val, vartype, force, fi)
    IN  /\ varcache' = r.cache
        /\ forced' = IF force THEN forced \cup {name} ELSE forced
        /\ ret' = Ret("setvar", r.ret, FALSE)
        /\ UNCHANGED <<fs, windows, base, bld, cmdlog, mat, gf, proj, process>>

\* CMakeCache.b / s / p / f / i
TypedSet(kind, name, val, force, fi) ==
    LET r == typed_set(varcache, windows, kind, name, val, force, fi)
    IN  /\ varcache' = r.cache
        /\ forced' = IF force THEN forced \cup {name} ELSE forced
        /\ ret' = Ret("setvar", r.ret, FALSE)
        /\ UNCHANGED <<fs, windows, base, bld, cmdlog, mat, gf, proj, process>>

\* CMakeCache.commit(builddir)
Commit(d) ==
    LET r == commit(varcache, fs, d)
    IN  /\ varcache' = r.cache
        /\ fs' = r.fs
        /\ base' = IF r.ret THEN OnDisk(r.fs, d) ELSE base
        /\ forced' = IF r.ret THEN {} ELSE forced
        /\ ret' = Ret("commit", r.ret, r.wrote)
        /\ UNCHANGED <<windows, bld, cmdlog, mat, gf, proj, process>>

NextCache ==
    \/ \E d \in DirArgs : Load(d)
    \/ \E v \in RawVals, t \in RawTypes, force \in BOOLEAN, fi \in FromInputArgs :
          SetVar(<<"A">>, v, t, force, fi)
    \/ \E k \in {"b", "s", "p", "f", "i"}, force \in BOOLEAN :
          \E n \in TypedNames(k), v \in TypedVals(k, windows) :
             TypedSet(k, n, v, force, "none")
    \/ \E d \in DirArgs : Commit(d)

SpecCache == InitCache /\ [][NextCache]_vars

(***************************************************************************)
(* The Build lifecycle.  A run of the program constructs the Build for the *)
(* build directory and calls configure, build, install or clean on it; a   *)
(* later run constructs it again from what is on disk.  base and forced    *)
(* belong to the cache specification and stay as they are here.            *)
(***************************************************************************)
FlagInputs == {<<>>, <<"-O2">>}
TargetLists == {<<>>, <<"t1">>, <<"t1", "t2">>}
FailSets == {F \in SUBSET (1..MaxCmds) : Cardinality(F) <= 2}

FreshDisk == [d \in Dirs |-> NoDir]

\* Build.__init__: load the cache of the build directory, gather the inputs
Construct(f, bl, win) ==
    gather_input_cache_vars(CMakeCache(f, "bd"), Self(bl, win), bl.flags)

Init ==
    /\ windows \in BOOLEAN
    /\ \E m \in BOOLEAN, dp \in {"none", "default", "given"}, fl \in FlagInputs :
          /\ m => windows
          /\ bld = [msvc |-> m, deps |-> (dp # "none"),
                    prefix |-> IF dp = "given" THEN "given" ELSE "default",
                    flags |-> fl, genbuild |-> "self"]
    /\ fs = FreshDisk
    /\ varcache = Construct(fs, bld, windows)
    /\ base = {}
    /\ forced = {}
    /\ ret = Ret("construct", TRUE, FALSE)
    /\ cmdlog = <<>>
    /\ mat = NoMatrix
    /\ gf = NoGather
    /\ proj = NoProject
    /\ process = NoProcess

Start(fail) == World(fs, varcache, fail, bld.genbuild)

\* the state when a lifecycle call returns or raises
Finish(op, w) ==
    /\ fs' = w.fs
    /\ varcache' = w.cache
    /\ cmdlog' = w.log
    /\ bld' = [bld EXCEPT !.genbuild = w.genbuild]
    /\ ret' = Ret(op, ~w.raised, FALSE)
    /\ UNCHANGED <<windows, base, forced, mat, gf, proj, process>>

\* a new run of the program on the same build directory
Reconstruct(fl) ==
    /\ bld' = [bld EXCEPT !.flags = fl, !.genbuild = "self"]
    /\ varcache' = Construct(fs, [bld EXCEPT !.flags = fl], windows)
    /\ cmdlog' = <<>>
    /\ ret' = Ret("construct", TRUE, FALSE)
    /\ UNCHANGED <<fs, windows, base, forced, mat, gf, proj, process>>

Configure(fail) ==
    \E w \in {configure(Self(bld, windows), Start(fail))} :
       Finish("configure", w)

BuildTargets(targets, fail) ==
    \E w \in {build(Self(bld, windows), Start(fail), targets)} :
       Finish("build", w)

Install(fail) ==
    \E w \in {install(Self(bld, windows), Start(fail))} :
       Finish("install", w)

Clean(fail) ==
    \E w \in {clean(Self(bld, windows), Start(fail))} :
       Finish("clean", w)

\* build.needs_configure(): only looks
NeedsConfigure ==
    /\ ret' = Ret("needs_configure", needs_configure(Self(bld, windows), Start({})), FALSE)
    /\ cmdlog' = <<>>
    /\ UNCHANGED <<fs, windows, varcache, base, forced, bld, mat, gf, proj, process>>

Next ==
    \/ \E fl \in FlagInputs : Reconstruct(fl)
    \/ NeedsConfigure
    \/ \E fail \in FailSets : Configure(fail)
    \/ \E ts \in TargetLists, fail \in FailSets : BuildTargets(ts, fail)
    \/ \E fail \in FailSets : Install(fail)
    \/ \E fail \in FailSets : Clean(fail)

Spec == Init /\ [][Next]_vars

(***************************************************************************)
(* One Build called again and again with every command succeeding: ret     *)
(* counts, up to MaxRuns, the configure commands run in the build          *)
(* directory since the Build was constructed.                              *)
(***************************************************************************)
MaxRuns == 4

\* the configure commands of a call that ran in the Build's own directory
OwnConfigures(log) ==
    Cardinality({k \in 1..Len(log) : /\ log[k].cmd.kind = "configure"
                                     /\ log[k].cmd.cwd = "bd"})

Counted(n, log) ==
    IF n + OwnConfigures(log) > MaxRuns THEN MaxRuns ELSE n + OwnConfigures(log)

InitRuns ==
    /\ Init!1
    /\ Init!2
    /\ fs = FreshDisk
    /\ varcache = Construct(fs, bld, windows)
    /\ base = {}
    /\ forced = {}
    /\ ret = [runs |-> 0] @@ Ret("construct", TRUE, FALSE)
    /\ cmdlog = <<>>
    /\ mat = NoMatrix
    /\ gf = NoGather
    /\ proj = NoProject
    /\ process = NoProcess

FinishRun(op, w) ==
    /\ fs' = w.fs
    /\ varcache' = w.cache
    /\ cmdlog' = w.log
    /\ bld' = [bld EXCEPT !.genbuild = w.genbuild]
    /\ ret' = [runs |-> Counted(ret.runs, w.log)] @@ Ret(op, ~w.raised, FALSE)
    /\ UNCHANGED <<windows, base, forced, mat, gf, proj, process>>

\* a new run of the program constructs the Build again, with the same inputs
ConstructAgain ==
    /\ bld' = [bld EXCEPT !.genbuild = "self"]
    /\ varcache' = Construct(fs, bld, windows)
    /\ cmdlog' = <<>>
    /\ ret' = [runs |-> 0] @@ Ret("construct", TRUE, FALSE)
    /\ UNCHANGED <<fs, windows, base, forced, mat, gf, proj, process>>

ConfigureAgain ==
    /\ ret.runs < MaxRuns
    /\ \E w \in {configure(Self(bld, windows), Start({}))} : FinishRun("configure", w)

BuildAgain(targets) ==
    \E w \in {build(Self(bld, windows), Start({}), targets)} : FinishRun("build", w)

NextRuns ==
    \/ ConstructAgain
    \/ ConfigureAgain
    \/ \E ts \in TargetLists : BuildAgain(ts)

SpecRuns == InitRuns /\ [][NextRuns]_vars

(***************************************************************************)
(* The project matrix: the Builds constructed for one project, by the      *)
(* Build of c4/cmany/build.py or by the Build of c4/pycmake/pycmake.py.    *)
(* An axis value is its name; a compiler is an object shared by the Builds *)
(* made from it, names[c] being its current name.  A Build record keeps    *)
(* the attributes computed at construction; the pycmake Build has no tag   *)
(* attributes (its tag, buildtag and installtag stay empty) and computes   *)
(* its display tag on demand.                                              *)
(***************************************************************************)
DASH == "-"

SystemName(win) == IF win THEN <<"windows">> ELSE <<"linux">>
Architectures == {<<"x86_64">>, <<"x86">>}
CompilerIds == {"gcc", "vs"}
BuildTypes == {<<"Release">>, <<"Debug">>}

\* a variant, or None where the caller passes none
NoVariant == [some |-> FALSE, name |-> <<>>]
Variant(name) == [some |-> TRUE, name |-> name]
CmanyVariants == {Variant(<<"none">>), Variant(<<"asan">>), Variant(<<>>)}

\* Compiler.__init__: the name is the family and the version, or the alias
\* of the IDE toolchain
CompilerName(c) == IF c = "gcc" THEN <<"gcc5.4">> ELSE <<"vs2015">>

\* Compiler.is_msvc
is_msvc(c) == c = "vs"

\* Architecture.is64: re.search('64', name)
is64(a) == \E i \in 1..Len(a) : a[i] \in {"x86_64", "_64"}

\* str.endswith
EndsWith(name, suffix) == Len(name) > 0 /\ name[Len(name)] = suffix

\* os.path.join(root, tag)
TagPath(win, root, tag) == <<root, PathSep(win)>> \o tag

cat_appends_any_variant(b, names) ==
    b.system \o <<DASH>> \o b.architecture \o <<DASH>> \o names[b.compiler]
        \o <<DASH>> \o b.buildtype
        \o (IF b.variant.some THEN <<DASH>> \o b.variant.name ELSE <<>>)

\* cmany Build._cat('-')
cat(b, names) ==
    b.system \o <<DASH>> \o b.architecture \o <<DASH>> \o names[b.compiler]
        \o <<DASH>> \o b.buildtype
        \o (IF b.variant.some /\ b.variant.name # <<>> /\ b.variant.name # <<"none">>
            THEN <<DASH>> \o b.variant.name
            ELSE <<>>)

\* cmany Build._set_paths
set_paths(b, names, win) ==
    [b EXCEPT !.tag = cat(b, names),
              !.buildtag = cat(b, names),
              !.installtag = cat(b, names),
              !.builddir = TagPath(win, "buildroot", cat(b, names)),
              !.installdir = TagPath(win, "installroot", cat(b, names)),
              !.preload_file = TagPath(win, "buildroot", cat(b, names))
                                  \o <<PathSep(win), "cmany_preload.cmake">>,
              !.cachefile = TagPath(win, "buildroot", cat(b, names))
                               \o <<PathSep(win), "CMakeCache.txt">>]

\* x != y on two axis values of c4/cmany: by name
axis_differs(x, y) == x # y

adjust_keeps_paths(b, a, c, names, win) ==
    LET ca == a # <<>> /\ axis_differs(a, b.architecture)
        cc == c # "" /\ axis_differs(c, b.compiler)
    IN  [b EXCEPT !.architecture = IF ca THEN a ELSE @,
                  !.compiler = IF cc THEN c ELSE @,
                  !.adjusted = @ \/ ca \/ cc]

\* cmany Build.adjust(architecture=a, compiler=c); a = <<>> and c = "" stand
\* for an argument that is not given
adjust(b, a, c, names, win) ==
    LET ca == a # <<>> /\ axis_differs(a, b.architecture)
        cc == c # "" /\ axis_differs(c, b.compiler)
    IN  set_paths([b EXCEPT !.architecture = IF ca THEN a ELSE @,
                            !.compiler = IF cc THEN c ELSE @,
                            !.adjusted = @ \/ ca \/ cc],
                  names, win)

BuildRecord(impl, win, a, c, m, v) ==
    [impl |-> impl, system |-> SystemName(win), architecture |-> a, compiler |-> c,
     buildtype |-> m, variant |-> v, adjusted |-> FALSE,
     tag |-> <<>>, buildtag |-> <<>>, installtag |-> <<>>,
     builddir |-> <<>>, installdir |-> <<>>, preload_file |-> <<>>, cachefile |-> <<>>]

\* cmany Build.__init__, as far as the paths go
CmanyBuild(win, a, c, m, v, names) ==
    set_paths(BuildRecord("cmany", win, a, c, m, v), names, win)

\* Generator.__init__: VisualStudioInfo.to_gen(name) knows the alias with at
\* most one suffix and raises KeyError for any other
generator_known(name) == Len(name) <= 2

\* pycmake Generator.create_default: the name of the compiler object after
\* the call (the architectures here are not ARM)
create_default(names, a, c) ==
    IF ~is_msvc(c) THEN names
    ELSE IF is64(a)
         THEN IF ~EndsWith(names[c], "_64")
              THEN [names EXCEPT ![c] = @ \o <<"_64">>]
              ELSE names
         ELSE IF ~EndsWith(names[c], "_32")
              THEN [names EXCEPT ![c] = @ \o <<"_32">>]
              ELSE names

pycmake_cat_keeps_buildtype(b, names, for_build_dir) ==
    b.system \o <<DASH>> \o b.architecture \o <<DASH>> \o names[b.compiler]
       \o <<DASH>> \o b.buildtype
       \o (IF b.variant.some THEN <<DASH>> \o b.variant.name ELSE <<>>)

\* pycmake Build._cat('-', for_build_dir)
pycmake_cat(b, names, for_build_dir) ==
    (IF is_msvc(b.compiler) /\ for_build_dir
     THEN b.system \o <<DASH>> \o b.architecture \o <<DASH>> \o names[b.compiler]
     ELSE b.system \o <<DASH>> \o b.architecture \o <<DASH>> \o names[b.compiler]
             \o <<DASH>> \o b.buildtype)
       \o (IF b.variant.some THEN <<DASH>> \o b.variant.name ELSE <<>>)

\* pycmake Build.__init__: the generator is created first, then the paths
\* are computed from the names as they are then
PycmakeBuild(win, a, c, m, v, names) ==
    LET n1 == create_default(names, a, c)
        b == BuildRecord("pycmake", win, a, c, m, v)
    IN  [names |-> n1,
         build |-> [b EXCEPT
                      !.builddir = TagPath(win, "buildroot", pycmake_cat(b, n1, TRUE)),
                      !.preload_file = TagPath(win, "buildroot", pycmake_cat(b, n1, TRUE))
                                          \o <<PathSep(win), "pycmake_preload.cmake">>,
                      !.installdir = TagPath(win, "installroot", pycmake_cat(b, n1, FALSE))]]

\* Build.__repr__: the display tag
DisplayTag(m, i) ==
    IF m.impl = "cmany" THEN m.builds[i].tag
    ELSE pycmake_cat(m.builds[i], m.names, FALSE)

\* the tag of the build directory: the directory below the build root
DirTag(m, i) == SubSeq(m.builds[i].builddir, 3, Len(m.builds[i].builddir))

InitTag ==
    /\ windows \in BOOLEAN
    /\ \E i \in {"cmany", "pycmake"} :
          mat = [impl |-> i, names |-> [c \in CompilerIds |-> CompilerName(c)],
                 builds |-> <<>>]
    /\ fs = FreshDisk
    /\ varcache = [vars |-> <<>>, dirty |-> FALSE]
    /\ base = {}
    /\ forced = {}
    /\ ret = NoRet
    /\ bld = NoBuild
    /\ cmdlog = <<>>
    /\ gf = NoGather
    /\ proj = NoProject
    /\ process = NoProcess

\* Build(...) of cmany for one point of the matrix
NewBuild(a, c, m, v) ==
    /\ mat.impl = "cmany"
    /\ Len(mat.builds) < MaxBuilds
    /\ is_msvc(c) => windows
    /\ mat' = [mat EXCEPT !.builds = Append(@, CmanyBuild(windows, a, c, m, v, mat.names))]
    /\ ret' = Ret("newbuild", TRUE, FALSE)
    /\ UNCHANGED <<fs, windows, varcache, base, forced, bld, cmdlog, gf, proj, process>>

\* Build(...) of pycmake for one point of the matrix; ProjectConfig passes
\* no variant
PyNewBuild(a, c, m) ==
    /\ mat.impl = "pycmake"
    /\ Len(mat.builds) < MaxBuilds
    /\ is_msvc(c) => windows
    /\ is_msvc(c) => generator_known(mat.names[c])
    /\ \E r \in {PycmakeBuild(windows, a, c, m, NoVariant, mat.names)} :
          mat' = [mat EXCEPT !.names = r.names, !.builds = Append(@, r.build)]
    /\ ret' = Ret("newbuild", TRUE, FALSE)
    /\ UNCHANGED <<fs, windows, varcache, base, forced, bld, cmdlog, gf, proj, process>>

\* build.adjust(architecture=a, compiler=c) on the i-th Build
Adjust(i, a, c) ==
    /\ mat.impl = "cmany"
    /\ i \in 1..Len(mat.builds)
    /\ (c # "" /\ is_msvc(c)) => windows
    /\ mat' = [mat EXCEPT !.builds[i] = adjust(@, a, c, mat.names, windows)]
    /\ ret' = Ret("adjust", TRUE, FALSE)
    /\ UNCHANGED <<fs, windows, varcache, base, forced, bld, cmdlog, gf, proj, process>>

NextTag ==
    \/ \E a \in Architectures, c \in CompilerIds, m \in BuildTypes, v \in CmanyVariants :
          NewBuild(a, c, m, v)
    \/ \E a \in Architectures, c \in CompilerIds, m \in BuildTypes :
          PyNewBuild(a, c, m)
    \/ \E i \in 1..MaxBuilds, a \in Architectures \cup {<<>>}, c \in CompilerIds \cup {""} :
          Adjust(i, a, c)

SpecTag == InitTag /\ [][NextTag]_vars

\* the Builds of cmany and their adjustment, each call of adjust being kept
\* with its arguments
InitAdjust == InitTag /\ mat.impl = "cmany"

AdjustCall(i, a, c) ==
    /\ i \in 1..Len(mat.builds)
    /\ (c # "" /\ is_msvc(c)) => windows
    /\ mat' = [mat EXCEPT !.builds[i] = adjust(@, a, c, mat.names, windows)]
    /\ ret' = [build |-> i, architecture |-> a, compiler |-> c] @@ Ret("adjust", TRUE, FALSE)
    /\ UNCHANGED <<fs, windows, varcache, base, forced, bld, cmdlog, gf, proj, process>>

NextAdjust ==
    \/ \E a \in Architectures, c \in CompilerIds, m \in BuildTypes, v \in CmanyVariants :
          NewBuild(a, c, m, v)
    \/ \E i \in 1..MaxBuilds, a \in Architectures \cup {<<>>}, c \in CompilerIds \cup {""} :
          AdjustCall(i, a, c)

SpecAdjust == InitAdjust /\ [][NextAdjust]_vars

(***************************************************************************)
(* The project of pycmake (ProjectConfig): the matrix of Builds made from  *)
(* the lists of axis values, the selection by filters and the batch        *)
(* operations.  An axis value is an object: it is the position it has in   *)
(* the list it was given in, and it has a name.  A Build is its position   *)
(* in the build list.  The build directories of the project hold a preload *)
(* file and the two sentinels of the pycmake Build; the directory of a     *)
(* Build is kept under the first Build that has the same path.             *)
(***************************************************************************)
MaxCalls == 2

\* str(None): ProjectConfig passes None for the variant
NoneStr == <<"None">>

\* BuildItem defines neither __eq__ nor __hash__: two axis values are equal,
\* and are the same key of a group, when they are the same object
BuildItem_eq(i, j) == i = j

\* _cbm(li): d = odict(); for i in li: d[i] = [] -- one key per distinct
\* object of the list, each with an empty group
cbm(li) == [k \in {i \in 1..Len(li) : \A j \in 1..Len(li) : BuildItem_eq(i, j) => i <= j}
               |-> <<>>]

\* ProjectConfig.is_valid
is_valid(a, c, m) == TRUE

add_build_skips_compiler_group(ax, st, a, c, m) ==
    IF st.raised \/ ~is_valid(a, c, m) THEN st
    ELSE IF is_msvc(ax.compilers[c]) /\ ~generator_known(st.names[ax.compilers[c]])
    THEN [st EXCEPT !.raised = TRUE]
    ELSE Bind(PycmakeBuild(ax.win, ax.architectures[a], ax.compilers[c],
                           ax.buildtypes[m], NoVariant, st.names),
              LAMBDA r :
                 [st EXCEPT !.names = r.names,
                            !.builds = Append(@, r.build),
                            !.at = Append(@, [s |-> 1, a |-> a, c |-> c, m |-> m, v |-> 1]),
                            !.system_builds[1] = Append(@, Len(st.builds) + 1),
                            !.architecture_builds[a] = Append(@, Len(st.builds) + 1),
                            !.buildtype_builds[m] = Append(@, Len(st.builds) + 1),
                            !.variant_builds[1] = Append(@, Len(st.builds) + 1)])

\* ProjectConfig.add_build_if_valid: Build(...) may raise in the generator;
\* the Build is appended to the build list and to the group of each of its
\* axis values
add_build_if_valid(ax, st, a, c, m) ==
    IF st.raised \/ ~is_valid(a, c, m) THEN st
    ELSE IF is_msvc(ax.compilers[c]) /\ ~generator_known(st.names[ax.compilers[c]])
    THEN [st EXCEPT !.raised = TRUE]
    ELSE Bind(PycmakeBuild(ax.win, ax.architectures[a], ax.compilers[c],
                           ax.buildtypes[m], NoVariant, st.names),
              LAMBDA r :
                 [st EXCEPT !.names = r.names,
                            !.builds = Append(@, r.build),
                            !.at = Append(@, [s |-> 1, a |-> a, c |-> c, m |-> m, v |-> 1]),
                            !.system_builds[1] = Append(@, Len(st.builds) + 1),
                            !.architecture_builds[a] = Append(@, Len(st.builds) + 1),
                            !.buildtype_builds[m] = Append(@, Len(st.builds) + 1),
                            !.compiler_builds[c] = Append(@, Len(st.builds) + 1),
                            !.variant_builds[1] = Append(@, Len(st.builds) + 1)])

\* the loops of ProjectConfig.__init__ (one system, one variant: None)
RECURSIVE loop_buildtypes(_, _, _, _, _)
loop_buildtypes(ax, st, a, c, m) ==
    IF m > Len(ax.buildtypes) THEN st
    ELSE loop_buildtypes(ax, add_build_if_valid(ax, st, a, c, m), a, c, m + 1)

RECURSIVE loop_compilers(_, _, _, _)
loop_compilers(ax, st, a, c) ==
    IF c > Len(ax.compilers) THEN st
    ELSE loop_compilers(ax, loop_buildtypes(ax, st, a, c, 1), a, c + 1)

RECURSIVE loop_architectures(_, _, _)
loop_architectures(ax, st, a) ==
    IF a > Len(ax.architectures) THEN st
    ELSE loop_architectures(ax, loop_compilers(ax, st, a, 1), a + 1)

\* the state of a build directory
PyNoDir == [exists |-> FALSE, preload |-> FALSE, cfgdone |-> NoFile, builddone |-> NoFile]

\* ProjectConfig.__init__
ProjectConfig(win, archs, comps, modes) ==
    Bind(loop_architectures(
            [win |-> win, architectures |-> archs, compilers |-> comps,
             buildtypes |-> modes],
            [names |-> [c \in CompilerIds |-> CompilerName(c)],
             builds |-> <<>>, at |-> <<>>, raised |-> FALSE,
             system_builds |-> cbm(<<SystemName(win)>>),
             architecture_builds |-> cbm(archs),
             buildtype_builds |-> cbm(modes),
             compiler_builds |-> cbm(comps),
             variant_builds |-> cbm(<<NoneStr>>)],
            1),
         LAMBDA st :
            [built |-> ~st.raised, raised |-> st.raised,
             architectures |-> archs, compilers |-> comps, buildtypes |-> modes,
             names |-> st.names, builds |-> st.builds, at |-> st.at,
             system_builds |-> st.system_builds,
             architecture_builds |-> st.architecture_builds,
             buildtype_builds |-> st.buildtype_builds,
             compiler_builds |-> st.compiler_builds,
             variant_builds |-> st.variant_builds,
             root |-> FALSE,
             disk |-> [i \in 1..Len(st.builds) |-> PyNoDir],
             calls |-> 0])

\* str(getattr(b, attr)) of the i-th Build
AxisStr(p, i, attr) ==
    CASE attr = "system" -> p.builds[i].system
      [] attr = "architecture" -> p.builds[i].architecture
      [] attr = "buildtype" -> p.builds[i].buildtype
      [] attr = "compiler" -> p.names[p.builds[i].compiler]
      [] attr = "variant" -> NoneStr

\* a keyword argument of select: not given, or a string
NotGiven == [some |-> FALSE, val |-> <<>>]
Given(val) == [some |-> TRUE, val |-> val]

\* _h(li, kw, attr) of select
h(p, li, g, attr) ==
    IF ~g.some THEN li
    ELSE SelectSeq(li, LAMBDA i : AxisStr(p, i, attr) = g.val)

select_ignores_buildtype(p, kw) ==
    h(p, h(p, h(p, h(p, [i \in 1..Len(p.builds) |-> i],
        kw.sys, "system"), kw.arch, "architecture"),
        kw.compiler, "compiler"), kw.variant, "variant")

\* ProjectConfig.select: the selected Builds, in order
select(p, kw) ==
    h(p, h(p, h(p, h(p, h(p, [i \in 1..Len(p.builds) |-> i],
        kw.sys, "system"), kw.arch, "architecture"), kw.buildtype, "buildtype"),
        kw.compiler, "compiler"), kw.variant, "variant")

\* the directory of the i-th Build: Builds with one path share it
Home(p, i) ==
    CHOOSE j \in 1..i :
        /\ p.builds[j].builddir = p.builds[i].builddir
        /\ \A k \in 1..(j - 1) : p.builds[k].builddir # p.builds[i].builddir

\* the state a call works on: the disk, the commands run, the progress
\* headers printed (one per Build the operation is applied to), and the
\* number of the command that exits non-zero (0: none)
PyWorld(p, failat) ==
    [disk |-> p.disk, root |-> p.root, log |-> <<>>, trace |-> <<>>, n |-> 0,
     failat |-> failat, raised |-> FALSE]

\* pycmake runsyscmd(cmd, echo_output=True): raises CalledProcessError when
\* the command exits non-zero
py_runsyscmd(w, cmd) ==
    [w EXCEPT !.n = w.n + 1,
              !.log = Append(@, [cmd |-> cmd, ok |-> w.n + 1 # w.failat]),
              !.raised = (w.n + 1 = w.failat)]

\* pycmake Build.create_dir: os.makedirs makes the build root as well
py_create_dir(p, i, w) ==
    IF ~w.disk[Home(p, i)].exists
    THEN [w EXCEPT !.disk[Home(p, i)].exists = TRUE, !.root = TRUE]
    ELSE w

\* pycmake Build.create_preload_file
py_create_preload_file(p, i, w) ==
    Bind(py_create_dir(p, i, w),
         LAMBDA x : [x EXCEPT !.disk[Home(p, i)].preload = TRUE])

\* the commands of the pycmake Build
PyConfigureCmd(i) == [kind |-> "configure", build |-> i, targets |-> <<>>]
PyGeneratorCmd(i, targets) == [kind |-> "build", build |-> i, targets |-> targets]
PyGeneratorInstall(i) == [kind |-> "install", build |-> i, targets |-> <<"install">>]

\* pycmake Build.configure
py_configure(p, i, w) ==
    Step(Step(Step(Step(w,
        LAMBDA x : py_create_dir(p, i, x)),
        LAMBDA x : IF ~x.disk[Home(p, i)].preload
                   THEN py_create_preload_file(p, i, x) ELSE x),
        LAMBDA x : py_runsyscmd(x, PyConfigureCmd(i))),
        LAMBDA x : [x EXCEPT !.disk[Home(p, i)].cfgdone = File(<<PyConfigureCmd(i)>>)])

\* targets = ["ALL_BUILD"] for the IDE toolchain when none is given
py_targets(p, i, targets) ==
    IF is_msvc(p.builds[i].compiler) /\ Len(targets) = 0
    THEN <<"ALL_BUILD">> ELSE targets

\* pycmake Build.build(targets): one command for the whole list
py_build(p, i, w, targets) ==
    Step(Step(Step(Step(w,
        LAMBDA x : py_create_dir(p, i, x)),
        LAMBDA x : IF ~x.disk[Home(p, i)].cfgdone.present
                   THEN py_configure(p, i, x) ELSE x),
        LAMBDA x : py_runsyscmd(x, PyGeneratorCmd(i, py_targets(p, i, targets)))),
        LAMBDA x : [x EXCEPT !.disk[Home(p, i)].builddone =
                                File(<<PyGeneratorCmd(i, py_targets(p, i, targets))>>)])

\* pycmake Build.install
py_install(p, i, w) ==
    Step(Step(Step(w,
        LAMBDA x : py_create_dir(p, i, x)),
        LAMBDA x : IF ~x.disk[Home(p, i)].builddone.present
                   THEN py_build(p, i, x, <<>>) ELSE x),
        LAMBDA x : py_runsyscmd(x, PyGeneratorInstall(i)))

\* pycmake Build.clean: os.remove raises when the sentinel is not there
py_clean(p, i, w) ==
    Step(Step(Step(w,
        LAMBDA x : py_create_dir(p, i, x)),
        LAMBDA x : py_runsyscmd(x, PyGeneratorCmd(i, <<"clean">>))),
        LAMBDA x : IF ~x.disk[Home(p, i)].builddone.present
                   THEN [x EXCEPT !.raised = TRUE]
                   ELSE [x EXCEPT !.disk[Home(p, i)].builddone = NoFile])

\* fn(b) for the four operations of a batch
py_apply(p, fn, i, w) ==
    CASE fn = "configure" -> py_configure(p, i, w)
      [] fn = "build" -> py_build(p, i, w, <<>>)
      [] fn = "install" -> py_install(p, i, w)
      [] fn = "clean" -> py_clean(p, i, w)

\* the loop of _execute: the progress header, then fn(b)
RECURSIVE execute_loop(_, _, _, _)
execute_loop(p, fn, builds, w) ==
    IF builds = <<>> THEN w
    ELSE Step(w, LAMBDA x :
            execute_loop(p, fn, Tail(builds),
                py_apply(p, fn, Head(builds),
                         [x EXCEPT !.trace = Append(@, Head(builds))])))

\* ProjectConfig._execute
execute(p, fn, kw, w) ==
    IF Len(select(p, kw)) = 0 THEN w
    ELSE execute_loop(p, fn, select(p, kw), w)

\* ProjectConfig.configure / build / clean / install: configure makes the
\* build root before anything is selected
batch(p, fn, kw, w) ==
    execute(p, fn, kw, IF fn = "configure" /\ ~w.root THEN [w EXCEPT !.root = TRUE] ELSE w)

\* the inputs of the project: lists of axis names; a list may name one value
\* twice
ArchitectureLists == {<< <<"x86_64">> >>, << <<"x86_64">>, <<"x86">> >>,
                      << <<"x86_64">>, <<"x86_64">> >>}
CompilerLists(win) ==
    IF win THEN {<<"gcc">>, <<"vs">>, <<"gcc", "vs">>} ELSE {<<"gcc">>}
BuildTypeLists == {<< <<"Release">> >>, << <<"Release">>, <<"Debug">> >>}

\* the filters the calls are made with
NoFilters ==
    [sys |-> NotGiven, arch |-> NotGiven, buildtype |-> NotGiven,
     compiler |-> NotGiven, variant |-> NotGiven]
ArchFilters == {NotGiven, Given(<<"x86">>)}
BuildTypeFilters == {NotGiven, Given(<<"Debug">>), Given(<<>>)}
CompilerFilters == {NotGiven, Given(<<"gcc5.4">>), Given(<<"vs2015", "_64">>)}
SelectFilters ==
    {[sys |-> s, arch |-> a, buildtype |-> m, compiler |-> c, variant |-> v] :
        s \in {NotGiven, Given(<<"linux">>)}, a \in ArchFilters, m \in BuildTypeFilters,
        c \in CompilerFilters, v \in {NotGiven, Given(NoneStr)}}
BatchFilters ==
    {[NoFilters EXCEPT !.arch = a, !.buildtype = m] :
        a \in {NotGiven, Given(<<"x86">>)}, m \in {NotGiven, Given(<<"Debug">>)}}
BatchOps == {"configure", "build", "install", "clean"}
MaxFail == 2
PyTargetLists == {<<>>, <<"a", "b">>}

\* the last call made on the project and what it returned or did
NoCall ==
    [op |-> "", kw |-> NoFilters, out |-> <<>>, trace |-> <<>>, log |-> <<>>,
     raised |-> FALSE, targets |-> <<>>]

InitProj ==
    /\ windows \in BOOLEAN
    /\ proj = NoProject
    /\ process = NoProcess
    /\ fs = FreshDisk
    /\ varcache = [vars |-> <<>>, dirty |-> FALSE]
    /\ base = {}
    /\ forced = {}
    /\ ret = NoRet
    /\ bld = NoBuild
    /\ cmdlog = <<>>
    /\ mat = NoMatrix
    /\ gf = NoGather

\* proj = ProjectConfig(architectures=..., compilers=..., build_types=...)
NewProject(archs, comps, modes) ==
    /\ ~proj.built /\ ~proj.raised
    /\ \E p \in {ProjectConfig(windows, archs, comps, modes)} :
          proj' = [last |-> NoCall] @@ p
    /\ UNCHANGED <<fs, windows, varcache, base, forced, ret, bld, cmdlog, mat, gf, process>>

\* proj.select(**kw); the selection does not depend on the disk and is
\* followed before the batch calls
Select(kw) ==
    /\ proj.built
    /\ proj.calls = 0
    /\ proj' = [proj EXCEPT !.last = [NoCall EXCEPT !.op = "select", !.kw = kw,
                                                    !.out = select(proj, kw)]]
    /\ UNCHANGED <<fs, windows, varcache, base, forced, ret, bld, cmdlog, mat, gf, process>>

\* proj.configure(**kw), proj.build(**kw), proj.install(**kw), proj.clean(**kw)
Batch(fn, kw, failat) ==
    /\ proj.built
    /\ proj.calls < MaxCalls
    /\ \E w \in {batch(proj, fn, kw, PyWorld(proj, failat))} :
          proj' = [proj EXCEPT !.disk = w.disk, !.root = w.root, !.calls = @ + 1,
                               !.last = [NoCall EXCEPT !.op = fn, !.kw = kw,
                                                       !.out = select(proj, kw),
                                                       !.trace = w.trace, !.log = w.log,
                                                       !.raised = w.raised]]
    /\ UNCHANGED <<fs, windows, varcache, base, forced, ret, bld, cmdlog, mat, gf, process>>

\* proj.builds[i].build(targets)
BuildOne(i, targets, failat) ==
    /\ proj.built
    /\ proj.calls < MaxCalls
    /\ i \in 1..Len(proj.builds)
    /\ \E w \in {py_build(proj, i, PyWorld(proj, failat), targets)} :
          proj' = [proj EXCEPT !.disk = w.disk, !.root = w.root, !.calls = @ + 1,
                               !.last = [NoCall EXCEPT !.op = "build_one", !.out = <<i>>,
                                                       !.targets = targets,
                                                       !.log = w.log,
                                                       !.raised = w.raised]]
    /\ UNCHANGED <<fs, windows, varcache, base, forced, ret, bld, cmdlog, mat, gf, process>>

NextProj ==
    \/ \E archs \in ArchitectureLists, comps \in CompilerLists(windows),
          modes \in BuildTypeLists :
          NewProject(archs, comps, modes)
    \/ \E kw \in SelectFilters : Select(kw)
    \/ \E fn \in BatchOps, kw \in BatchFilters, failat \in 0..MaxFail :
          Batch(fn, kw, failat)
    \/ \E i \in 1..Len(proj.builds), targets \in PyTargetLists,
          failat \in 0..MaxFail :
          BuildOne(i, targets, failat)

SpecProj == InitProj /\ [][NextProj]_vars

(***************************************************************************)
(* The flags of a Build.  A flag is an option with its spelling for the    *)
(* gcc-like compilers and for the IDE toolchain; a flag set has the C      *)
(* flags, the C++ flags and the defines of one source.                     *)
(***************************************************************************)
Opt(gcclike, vs) == [gcclike |-> gcclike, vs |-> vs]

get_always_gcclike(f, msvc) == f.gcclike

\* CompileOption.get(compiler)
get(f, msvc) == IF msvc THEN f.vs ELSE f.gcclike

SampleFlagSets ==
    { [cflags |-> <<>>,
       cxxflags |-> <<Opt("-std=c++14", "")>>,
       defines |-> <<"-DX">>],
      [cflags |-> <<Opt("-Wall", "/Wall")>>,
       cxxflags |-> <<Opt("-Wall", "/Wall"), Opt("-std=c++14", "")>>,
       defines |-> <<>>],
      [cflags |-> <<Opt("-g", ""), Opt("-Wall", "/Wall")>>,
       cxxflags |-> <<>>,
       defines |-> <<"-DY", "-DX">>] }

get_flagseq_variant_first(g) ==
    <<g.flagseq[6], g.flagseq[1], g.flagseq[2], g.flagseq[3], g.flagseq[4], g.flagseq[5]>>

\* Build._get_flagseq: the flag sets of the Build itself, of the system, the
\* architecture, the compiler, the build type and the variant
get_flagseq(g) ==
    <<g.flagseq[1], g.flagseq[2], g.flagseq[3], g.flagseq[4], g.flagseq[5], g.flagseq[6]>>

\* the loop of _gather_flags over the flag sets
RECURSIVE gather_loop(_, _, _, _, _)
gather_loop(flagseq, which, with_defines, msvc, flags) ==
    IF flagseq = <<>> THEN flags
    ELSE LET wf == Head(flagseq)[which]
             resolved == [k \in 1..Len(wf) |-> get(wf[k], msvc)]
         IN  gather_loop(Tail(flagseq), which, with_defines, msvc,
                         flags \o resolved \o
                            (IF with_defines THEN Head(flagseq).defines ELSE <<>>))

\* Build._gather_flags(which, append_to_sysinfo_var, with_defines); the
\* lookup of the variable in the tool's system information may raise
gather_flags(g, which, sysvar, with_defines) ==
    gather_loop(get_flagseq(g), which, with_defines, g.msvc,
                IF sysvar /\ g.sysinfo.ok THEN <<g.sysinfo.val>> ELSE <<>>)

InitFlags ==
    /\ windows \in BOOLEAN
    /\ \E fq \in [1..6 -> SampleFlagSets], ok \in BOOLEAN :
          gf = [NoGather EXCEPT !.flagseq = fq, !.msvc = windows,
                                !.sysinfo = [ok |-> ok, val |-> IF ok THEN "-O1" ELSE ""]]
    /\ fs = FreshDisk
    /\ varcache = [vars |-> <<>>, dirty |-> FALSE]
    /\ base = {}
    /\ forced = {}
    /\ ret = NoRet
    /\ bld = NoBuild
    /\ cmdlog = <<>>
    /\ mat = NoMatrix
    /\ proj = NoProject
    /\ process = NoProcess

\* self._gather_flags(which, sysvar, with_defines=...)
GatherFlags(which, sysvar, with_defines) ==
    /\ gf' = [gf EXCEPT !.call = [which |-> which, sysvar |-> sysvar,
                                  with_defines |-> with_defines],
                        !.flags = gather_flags(gf, which, sysvar, with_defines)]
    /\ ret' = Ret("gather", TRUE, FALSE)
    /\ UNCHANGED <<fs, windows, varcache, base, forced, bld, cmdlog, mat, proj, process>>

NextFlags ==
    \E which \in {"cflags", "cxxflags"}, sysvar \in BOOLEAN, with_defines \in BOOLEAN :
       GatherFlags(which, sysvar, with_defines)

SpecFlags == InitFlags /\ [][NextFlags]_vars

(***************************************************************************)
(* The option presets of pycmake: the fixed table option_presets and the   *)
(* lookup by name.  base keeps what each lookup so far answered, as        *)
(* <<name, compiler, answer>>.                                             *)
(***************************************************************************)
MaxLookups == 3

option_presets ==
    [n \in {"cpp11", "cpp14", "cpp1z", "wall", "pedantic", "strict_aliasing",
            "no_strict_aliasing", "fast_math", "no_rtti", "no_exceptions",
            "no_stdlib", "thread", "g", "g3"} |->
       CASE n = "cpp11" -> Opt("-std=c++11", "")
         [] n = "cpp14" -> Opt("-std=c++14", "")
         [] n = "cpp1z" -> Opt("-std=c++1z", "")
         [] n = "wall" -> Opt("-Wall", "/Wall")
         [] n = "pedantic" -> Opt("-Wpedantic", "/W4")
         [] n = "strict_aliasing" -> Opt("-fstrict-aliasing", "")
         [] n = "no_strict_aliasing" -> Opt("-fno-strict-aliasing", "")
         [] n = "fast_math" -> Opt("-ffast-math", "/fp:fast")
         [] n = "no_rtti" -> Opt("-fno-rtti", "/GR-")
         [] n = "no_exceptions" -> Opt("-fno-exceptions", "/EHsc-")
         [] n = "no_stdlib" -> Opt("-fnostdlib", "/NODEFAULTLIB")
         [] n = "thread" -> Opt("-pthread", "")
         [] n = "g" -> Opt("-g", "")
         [] n = "g3" -> Opt("-g3", "")]

\* option_presets.get(name) is None for a name the table does not have
get_compile_option_preset(name) ==
    IF name \notin DOMAIN option_presets
    THEN [raised |-> TRUE, error |-> <<"could not find compile option preset: ", name>>,
          opt |-> Opt("", "")]
    ELSE [raised |-> FALSE, error |-> <<>>, opt |-> option_presets[name]]

\* get_compile_option_preset(name).get(compiler)
resolve_preset(name, c) ==
    LET r == get_compile_option_preset(name)
    IN  IF r.raised THEN [raised |-> TRUE, error |-> r.error, token |-> ""]
        ELSE [raised |-> FALSE, error |-> <<>>, token |-> get(r.opt, is_msvc(c))]

\* the names asked for: those of the table and two it does not have
PresetNames == DOMAIN option_presets \cup {"cpp17", ""}

NoLookup == [n |-> 0, name |-> "", compiler |-> "", raised |-> FALSE, token |-> ""] @@ NoRet

InitPreset ==
    /\ windows \in BOOLEAN
    /\ fs = FreshDisk
    /\ varcache = CMakeCache(fs, "bd")
    /\ base = {}
    /\ forced = {}
    /\ ret = NoLookup
    /\ bld = NoBuild
    /\ cmdlog = <<>>
    /\ mat = NoMatrix
    /\ gf = NoGather
    /\ proj = NoProject
    /\ process = NoProcess

ResolvePreset(name, c) ==
    /\ ret.n < MaxLookups
    /\ \E r \in {resolve_preset(name, c)} :
          /\ ret' = [n |-> ret.n + 1, name |-> name, compiler |-> c,
                     raised |-> r.raised, token |-> r.token]
                    @@ Ret("preset", ~r.raised, FALSE)
          /\ base' = base \cup {<<name, c, r>>}
    /\ UNCHANGED <<fs, windows, varcache, forced, bld, cmdlog, mat, gf, proj, process>>

NextPreset == \E name \in PresetNames, c \in CompilerIds : ResolvePreset(name, c)

SpecPreset == InitPreset /\ [][NextPreset]_vars

(***************************************************************************)
(* The raw variable assignments of a Build: every flag source has a list   *)
(* cmake_vars of strings such as NAME=VALUE or NAME:TYPE=VALUE, which the  *)
(* construction of the Build parses and sets in the cache.                 *)
(***************************************************************************)
MaxVars == 2

\* str.split(sep)
RECURSIVE split(_, _)
split(s, sep) ==
    IF FirstFrom(s, sep, 1) = 0 THEN <<s>>
    ELSE <<SubSeq(s, 1, FirstFrom(s, sep, 1) - 1)>>
            \o split(SubSeq(s, FirstFrom(s, sep, 1) + 1, Len(s)), sep)

\* ''.join(parts)
RECURSIVE join(_)
join(parts) == IF parts = <<>> THEN <<>> ELSE Head(parts) \o join(Tail(parts))

\* no error, and the two errors the parsing can end with: the TypeError of
\* a call of setvar without its positional argument vartype, and
\* Exception('could not parse variable value: ' + v)
NoError == [type |-> "", text |-> <<>>]
MissingArgument == [type |-> "TypeError", text |-> <<"setvar() missing vartype">>]
CouldNotParse(v) == [type |-> "Exception", text |-> <<"could not parse variable value: ">> \o v]

\* the body of the loops of _gather_cmake_vars for one string v
gather_cmake_var(st, v) ==
    LET spl == split(v, EQ)
        vval == IF Len(spl) > 1 THEN join(Tail(spl)) ELSE <<>>
        nspl == split(spl[1], COLON)
    IN  IF Len(nspl) = 1
        THEN [st EXCEPT !.raised = TRUE, !.error = MissingArgument]
        ELSE IF Len(nspl) = 2
        THEN [st EXCEPT !.cache = setvar(st.cache, nspl[1], vval, nspl[2], FALSE, "true").cache]
        ELSE [st EXCEPT !.raised = TRUE, !.error = CouldNotParse(v)]

\* for v in fs.cmake_vars
RECURSIVE gather_cmake_vars_of(_, _)
gather_cmake_vars_of(st, vs) ==
    IF vs = <<>> THEN st
    ELSE Step(gather_cmake_var(st, Head(vs)),
              LAMBDA x : gather_cmake_vars_of(x, Tail(vs)))

\* for fs in flagseq
RECURSIVE gather_cmake_vars_loop(_, _)
gather_cmake_vars_loop(st, flagseq) ==
    IF flagseq = <<>> THEN st
    ELSE Step(gather_cmake_vars_of(st, Head(flagseq).cmake_vars),
              LAMBDA x : gather_cmake_vars_loop(x, Tail(flagseq)))

\* Build._gather_cmake_vars
gather_cmake_vars(c, g) ==
    gather_cmake_vars_loop([cache |-> c, raised |-> FALSE, error |-> NoError],
                           get_flagseq(g))

\* Build.__init__ from the cache on: CMakeCache(self.builddir), then
\* gather_input_cache_vars, which starts with _gather_cmake_vars
Build_init(f, bl, win, g) ==
    Step(gather_cmake_vars(CMakeCache(f, "bd"), g),
         LAMBDA x : [x EXCEPT !.cache =
                        gather_input_cache_vars(x.cache, Self(bl, win),
                                                gather_flags(g, "cflags", TRUE, TRUE))])

\* the strings the flag sources are given
RawAssignments ==
    { <<"A", EQ, "x">>,
      <<"A", COLON, "STRING", EQ, "x">>,
      <<"B", COLON, "STRING", EQ, "x", EQ, "y">>,
      <<"C", COLON, "BOOL", EQ, "ON">>,
      <<"A", COLON, "STRING">>,
      <<"A">>,
      <<"A", COLON, "B", COLON, "C">> }

\* a flag source with nothing but the assignments vs
VarSource(vs) == [cflags |-> <<>>, cxxflags |-> <<>>, defines |-> <<>>, cmake_vars |-> vs]

\* the assignments given on the command line: each goes to one of the six
\* flag sources
Placements == UNION {[1..n -> (1..6) \X RawAssignments] : n \in 0..MaxVars}

\* the strings of the placements pl that go to source k, in their order
RECURSIVE VarsOf(_, _)
VarsOf(pl, k) ==
    IF pl = <<>> THEN <<>>
    ELSE (IF Head(pl)[1] = k THEN <<Head(pl)[2]>> ELSE <<>>) \o VarsOf(Tail(pl), k)

\* the build directory before the Build is made: not there, or with a cache
VarDisks ==
    {FreshDisk,
     [FreshDisk EXCEPT !["bd"] =
        [EmptyDir EXCEPT !.cachefile = File(<< <<"A", COLON, "STRING", EQ, "y", NL>> >>)]]}

InitVars ==
    /\ windows \in BOOLEAN
    /\ fs \in VarDisks
    /\ \E pl \in Placements :
          gf = [NoGather EXCEPT !.flagseq = [k \in 1..6 |-> VarSource(VarsOf(pl, k))]]
    /\ varcache = [vars |-> <<>>, dirty |-> FALSE]
    /\ base = {}
    /\ forced = {}
    /\ ret = [error |-> NoError] @@ NoRet
    /\ bld = NoBuild
    /\ cmdlog = <<>>
    /\ mat = NoMatrix
    /\ proj = NoProject
    /\ process = NoProcess

\* Build(...): the cache is loaded and the inputs are gathered
ConstructBuild ==
    /\ ret.op = "init"
    /\ \E r \in {Build_init(fs, bld, windows, gf)} :
          /\ varcache' = r.cache
          /\ ret' = [error |-> r.error] @@ Ret("construct", ~r.raised, FALSE)
    /\ UNCHANGED <<fs, windows, base, forced, bld, cmdlog, mat, gf, proj, process>>

NextVars == ConstructBuild

SpecVars == InitVars /\ [][NextVars]_vars

(***************************************************************************)
(* The scoped directory change of pycmake (cwd_back).  A path is the       *)
(* string the caller wrote; /l is a symbolic link to /p, so /l/b names the *)
(* directory /p/b.  The process is in one directory, which os.getcwd()     *)
(* spells physically.  A with block is followed from __enter__ to          *)
(* __exit__: stack holds the cwd_back objects of the open blocks, out the  *)
(* messages the last step printed, raising says an exception propagates.   *)
(***************************************************************************)
MaxDepth == 3

ProjDir == <<SL, "p">>
BuildDir == <<SL, "p", SL, "b">>
LinkedBuildDir == <<SL, "l", SL, "b">>
MissingDir == <<SL, "p", SL, "x">>

\* the directory a path names: the link /l resolved
realpath(path) ==
    IF Len(path) >= 2 /\ SubSeq(path, 1, 2) = <<SL, "l">>
    THEN ProjDir \o SubSeq(path, 3, Len(path))
    ELSE path

ExistingDirs == {ProjDir, BuildDir}

\* os.path.exists(path)
path_exists(path) == realpath(path) \in ExistingDirs

\* os.chdir(path) and os.getcwd()
chdir(pr, path) == [pr EXCEPT !.cwd = realpath(path)]
getcwd(pr) == pr.cwd

Entering(dir, old) == [text |-> "Entering directory", dir |-> dir, other |-> old]
Returning(old, dir) == [text |-> "Returning to directory", dir |-> old, other |-> dir]

\* cwd_back(dir).__enter__(): chkf raises when the directory is not there,
\* and the block is not entered
cwd_back_enter(pr, dir) ==
    LET old == getcwd(pr)
        me == [old |-> old, dir |-> dir]
    IN  IF old = dir
        THEN [pr EXCEPT !.stack = Append(@, me), !.out = <<>>]
        ELSE IF ~path_exists(dir)
             THEN [pr EXCEPT !.out = <<Entering(dir, old)>>, !.raising = TRUE]
             ELSE [chdir(pr, dir) EXCEPT !.stack = Append(@, me),
                                         !.out = <<Entering(dir, old)>>]

\* cwd_back.__exit__(): returns None, so an exception keeps propagating
cwd_back_exit(pr) ==
    LET me == pr.stack[Len(pr.stack)]
        rest == SubSeq(pr.stack, 1, Len(pr.stack) - 1)
    IN  IF me.old = me.dir
        THEN [pr EXCEPT !.stack = rest, !.out = <<>>]
        ELSE IF ~path_exists(me.old)
             THEN [pr EXCEPT !.stack = rest, !.out = <<Returning(me.old, me.dir)>>,
                             !.raising = TRUE]
             ELSE [chdir(pr, me.old) EXCEPT !.stack = rest,
                                            !.out = <<Returning(me.old, me.dir)>>]

\* the directories the caller names: os.path.abspath of what the user gave
CwdTargets == {ProjDir, BuildDir, LinkedBuildDir, MissingDir}

InitCwd ==
    /\ windows = FALSE
    /\ fs = FreshDisk
    /\ varcache = CMakeCache(fs, "bd")
    /\ base = {}
    /\ forced = {}
    /\ ret = NoRet
    /\ bld = NoBuild
    /\ cmdlog = <<>>
    /\ mat = NoMatrix
    /\ gf = NoGather
    /\ proj = NoProject
    /\ \E d \in ExistingDirs : process = [NoProcess EXCEPT !.cwd = d]

\* with cwd_back(dir): the block is entered
Enter(dir) ==
    /\ ~process.raising
    /\ Len(process.stack) < MaxDepth
    /\ process' = cwd_back_enter(process, dir)
    /\ UNCHANGED <<fs, windows, varcache, base, forced, ret, bld, cmdlog, mat, gf, proj>>

\* the body of the innermost block raises (a command exits non-zero)
Raise ==
    /\ ~process.raising
    /\ process.stack # <<>>
    /\ process' = [process EXCEPT !.raising = TRUE, !.out = <<>>]
    /\ UNCHANGED <<fs, windows, varcache, base, forced, ret, bld, cmdlog, mat, gf, proj>>

\* the innermost block is left, at the end of its body or by the exception
Exit ==
    /\ process.stack # <<>>
    /\ process' = cwd_back_exit(process)
    /\ UNCHANGED <<fs, windows, varcache, base, forced, ret, bld, cmdlog, mat, gf, proj>>

\* the exception has left every block and reaches the caller
Catch ==
    /\ process.raising
    /\ process.stack = <<>>
    /\ process' = [process EXCEPT !.raising = FALSE, !.out = <<>>]
    /\ UNCHANGED <<fs, windows, varcache, base, forced, ret, bld, cmdlog, mat, gf, proj>>

NextCwd ==
    \/ \E dir \in CwdTargets : Enter(dir)
    \/ Raise
    \/ Exit
    \/ Catch

SpecCwd == InitCwd /\ [][NextCwd]_vars

(***************************************************************************)
(* Properties of the configuration cache.                                  *)
(***************************************************************************)
Vars == varcache.vars
HasVar(n) == Get(varcache, n) # 0
TheVar(n) == Vars[Get(varcache, n)]
DirtyFlags(c) == [i \in 1..Len(c.vars) |-> c.vars[i].dirty]
AllClean(c) == ~c.dirty /\ \A i \in 1..Len(c.vars) : ~c.vars[i].dirty

\* C5: the aggregate dirty flag of the cache equals the logical OR of the
\* dirty flags of its variables, in every reachable state.
C5_AggregateIsOr ==
    varcache.dirty = (\E i \in 1..Len(Vars) : Vars[i].dirty)

C5_Witness ==
    /\ ret.op = "setvar"
    /\ Len(Vars) = 2
    /\ Vars[1].dirty # Vars[2].dirty
    /\ varcache.dirty

\* C6: a variable is dirty if and only if its value or type differs from the
\* record last loaded from or committed to the file, or it was set with
\* force_dirty since then.
C6_DirtyIffDiffers ==
    \A i \in 1..Len(Vars) :
       Vars[i].dirty <=>
          \/ <<Vars[i].name, Vars[i].val, Vars[i].vartype>> \notin base
          \/ Vars[i].name \in forced

\* C7: setvar on an existing variable with its current value and type and
\* without force_dirty returns false and changes no dirty flag (so a clean
\* cache stays clean after a commit); with a different value or type it
\* returns true and makes the variable and the aggregate dirty.
C7_SetvarIdempotent ==
    [][\A n \in Names :
         \* the step is setvar(n, v, t) without force_dirty on an existing
         \* variable; setvar leaves the variable with the value and type it
         \* was called with
         (/\ ret'.op = "setvar"
          /\ HasVar(n)
          /\ \E fi \in FromInputArgs :
                SetVar(n, varcache'.vars[Get(varcache, n)].val,
                          varcache'.vars[Get(varcache, n)].vartype, FALSE, fi)) =>
            LET v == varcache'.vars[Get(varcache, n)].val
                t == varcache'.vars[Get(varcache, n)].vartype
            IN  IF TheVar(n).val = v /\ TheVar(n).vartype = t
                THEN /\ ret'.res = FALSE
                     /\ DirtyFlags(varcache') = DirtyFlags(varcache)
                     /\ varcache'.dirty = varcache.dirty
                     /\ (ret.op = "commit" /\ ret.res => AllClean(varcache'))
                ELSE /\ ret'.res = TRUE
                     /\ varcache'.vars[Get(varcache, n)].dirty
                     /\ varcache'.dirty]_vars

C7_Witness ==
    /\ ret.op = "setvar"
    /\ ret.res = FALSE
    /\ Len(Vars) > 0
    /\ AllClean(varcache)
    \* a commit has rewritten the record of A before the call
    /\ \E k \in 1..Len(fs["bd"].cachefile.lines) :
          fs["bd"].cachefile.lines[k] = <<"A", COLON, "STRING", EQ, "y", NL>>

\* the line is the record of a variable that is dirty in cache c
BelongsToDirty(l, c) ==
    /\ cache_entry_match(l)
    /\ \E i \in 1..Len(c.vars) : c.vars[i].dirty /\ c.vars[i].name = Group1(l)

\* C8: a commit that returns true leaves the file as it was with exactly the
\* dirty variables persisted: each variable that was dirty has a record
\* name:type=value with its in-memory value and type, and every line that is
\* not the record of a dirty variable is unchanged and in the same position.
C8_CommitPersistsDirty ==
    [][\A d \in Dirs :
         (Commit(d) /\ ret'.res) =>
            LET old == fs[d].cachefile.lines
                new == fs'[d].cachefile.lines
            IN  /\ Len(new) = Len(old)
                /\ \A i \in 1..Len(Vars) :
                      Vars[i].dirty =>
                         \E k \in 1..Len(new) : Strip(new[k]) = VarStr(Vars[i])
                /\ \A k \in 1..Len(old) :
                      ~BelongsToDirty(old[k], varcache) => new[k] = old[k]]_vars

\* C9: commit on a clean cache, or for a directory that is None or missing,
\* or without a persisted cache file, returns false, writes nothing and
\* leaves every variable and the aggregate flag as they were.
C9_CommitNoop ==
    [][\A d \in DirArgs :
         (Commit(d) /\ (~varcache.dirty \/ ~DirExists(fs, d) \/ ~CacheFileExists(fs, d))) =>
            /\ ret'.res = FALSE
            /\ ~ret'.wrote
            /\ fs' = fs
            /\ varcache' = varcache]_vars

C9_Witness ==
    /\ ret.op = "commit"
    /\ ret.res = FALSE
    /\ varcache.dirty
    /\ ~fs["bd"].cachefile.present

\* C10: commit returns true exactly when the cache was dirty and the
\* directory and its cache file existed, which is exactly when it wrote the
\* file; after such a call every dirty flag and the aggregate flag are false.
C10_CommitTrueIffWrote ==
    [][\A d \in DirArgs :
         Commit(d) =>
            /\ ret'.res <=> (varcache.dirty /\ DirExists(fs, d) /\ CacheFileExists(fs, d))
            /\ ret'.res <=> ret'.wrote
            /\ ret'.res => AllClean(varcache')]_vars

C10_Witness ==
    /\ ret.op = "commit"
    /\ ret.res
    /\ ret.wrote
    /\ Len(Vars) = 2
    /\ AllClean(varcache)

\* the lines of the cache file of d that are records NAME:TYPE=VALUE
Records(f, d) ==
    {k \in 1..Len(f[d].cachefile.lines) : cache_entry_match(f[d].cachefile.lines[k])}

\* the original statement of C11: a cache built for a directory that is
\* None, missing or without cache file is empty and the call returns; a
\* cache loaded from a file has as many variables as the file has
\* NAME:TYPE=VALUE lines, all clean, and the aggregate flag is false.
C11_OneVarPerLine ==
    [][\A d \in DirArgs :
         Load(d) =>
            /\ ret'.res
            /\ AllClean(varcache')
            /\ IF CacheFileExists(fs, d)
               THEN Len(varcache'.vars) = Cardinality(Records(fs, d))
               ELSE varcache'.vars = <<>>]_vars

\* C11: a cache built for a directory that is None, missing or without
\* cache file is empty and the call returns; a cache loaded from a file has
\* one variable per distinct NAME of its NAME:TYPE=VALUE lines, which reads
\* back as the last line of that name; every variable is clean and the
\* aggregate flag is false.
C11_LoadParsesRecords ==
    [][\A d \in DirArgs :
         Load(d) =>
            /\ ret'.res
            /\ AllClean(varcache')
            /\ IF CacheFileExists(fs, d)
               THEN LET ls == fs[d].cachefile.lines
                        vs == varcache'.vars
                    IN  /\ \A i, j \in 1..Len(vs) : vs[i].name = vs[j].name => i = j
                        /\ \A k \in Records(fs, d) :
                              \E i \in 1..Len(vs) :
                                 StartsWith(ls[k], vs[i].name \o <<COLON>>)
                        /\ \A i \in 1..Len(vs) :
                              \E k \in Records(fs, d) :
                                 /\ Strip(ls[k]) = VarStr(vs[i])
                                 /\ \A m \in Records(fs, d) :
                                       (m > k) =>
                                          ~StartsWith(ls[m], vs[i].name \o <<COLON>>)
               ELSE varcache'.vars = <<>>]_vars

\* a file whose two records repeat a name was loaded as one variable
C11_Witness ==
    /\ ret.op = "load"
    /\ Cardinality(Records(fs, "bd")) = 2
    /\ Len(Vars) = 1
    /\ Vars[1].val = <<"y">>

(***************************************************************************)
(* Properties of the Build lifecycle.                                      *)
(***************************************************************************)
Me == Self(bld, windows)
Now == World(fs, varcache, {}, bld.genbuild)
HasSentinel(d, which) == DirExists(fs, d) /\ fs[d][which].present

\* the positions in a log of the commands of one kind run in directory d
Cmds(log, kind, d) ==
    {i \in 1..Len(log) : log[i].cmd.kind = kind /\ log[i].cmd.cwd = d}

\* the two spellings of a path name the same directory
SamePath(p, q) == ToForwardSlashes(p) = ToForwardSlashes(q)

\* C1: a Build whose build directory does not exist needs configuring, and
\* when configure() has returned with the tool having succeeded (the cache
\* file exists) needs_configure() is false.
C1_ConfigureSettles ==
    /\ ~DirExists(fs, "bd") => needs_configure(Me, Now)
    /\ (ret.op = "configure" /\ ret.res /\ CacheFileExists(fs, "bd"))
          => ~needs_configure(Me, Now)

\* C2: a successful build() on a Build without "configure done" sentinel
\* runs the configure command of the Build exactly once, before the first
\* build-target command.
C2_BuildConfiguresOnce ==
    [][(ret'.op = "build" /\ ret'.res /\ ~HasSentinel("bd", "cfgdone")) =>
          /\ Cardinality(Cmds(cmdlog', "configure", "bd")) = 1
          /\ Cmds(cmdlog', "build", "bd") # {}
          /\ \A i \in Cmds(cmdlog', "configure", "bd"),
                j \in Cmds(cmdlog', "build", "bd") : i < j]_vars

C2_Witness ==
    /\ ret.op = "build"
    /\ ret.res
    /\ Len(cmdlog) = 3
    /\ cmdlog[1].cmd.kind = "configure"
    /\ cmdlog[3].cmd.target = "t2"
    \* no commit took place: there was no cache file before this build
    /\ varcache.dirty

\* C3: after a clean() that returned normally the "build done" sentinel is
\* absent and needs_build() is true.
C3_CleanForcesBuild ==
    (ret.op = "clean" /\ ret.res) =>
        /\ ~HasSentinel("bd", "builddone")
        /\ needs_build(Me, Now)

C3_Witness ==
    /\ ret.op = "clean"
    /\ ret.res
    /\ HasSentinel("bd", "cfgdone")
    /\ ~varcache.dirty

\* C4: configure() of a Build with a dependency source and no "dependencies
\* done" sentinel runs the configure, the build and the best-effort install
\* of the dependency copy, in this order, before the configure command of
\* the Build; when it returns, CMAKE_PREFIX_PATH is the install directory of
\* the Build.
C4_DepsBeforeConfigure ==
    [][(ret'.op = "configure" /\ ret'.res /\ bld.deps /\ ~deps_done(Me, Now)) =>
          /\ Len(cmdlog') = 4
          /\ \A i \in 1..3 : /\ cmdlog'[i].cmd.cwd = "dep"
                             /\ cmdlog'[i].cmd.proj = "depsrc"
          /\ cmdlog'[1].cmd.kind = "configure" /\ cmdlog'[1].ok
          /\ cmdlog'[2].cmd.kind = "build" /\ cmdlog'[2].ok
          /\ cmdlog'[3].cmd.kind = "install"
          /\ cmdlog'[4].cmd = ConfigureCmd(Me) /\ cmdlog'[4].ok
          /\ Get(varcache', <<"CMAKE_PREFIX_PATH">>) # 0
          /\ LET v == varcache'.vars[Get(varcache', <<"CMAKE_PREFIX_PATH">>)]
             IN  SamePath(v.val, Me.installdir) /\ v.vartype = <<"PATH">>]_vars

C4_Witness ==
    /\ ret.op = "configure"
    /\ ret.res
    /\ Len(cmdlog) = 4
    /\ cmdlog[3].cmd.kind = "install"
    /\ ~cmdlog[3].ok
    /\ HasSentinel("bd", "depsdone")
    /\ Get(varcache, <<"CMAKE_PREFIX_PATH">>) # 0

\* the variables gather_input_cache_vars sets from input for the Build
InputVarNames ==
    (IF ~bld.msvc THEN {<<"CMAKE_C_COMPILER">>, <<"CMAKE_CXX_COMPILER">>} ELSE {})
    \cup {<<"CMAKE_BUILD_TYPE">>, <<"CMAKE_INSTALL_PREFIX">>}
    \cup (IF bld.flags # <<>> THEN {<<"CMAKE_C_FLAGS">>, <<"CMAKE_CXX_FLAGS">>} ELSE {})

\* C16: when configure() has written the preload file, the file holds one
\* directive for each variable the Build set from input, with the value and
\* type the cache holds for it, and no other directive.
C16_PreloadHoldsInputs ==
    (ret.op = "configure" /\ DirExists(fs, "bd") /\ fs["bd"].preload.present) =>
        LET ls == fs["bd"].preload.lines
        IN  /\ {ls[k][1] : k \in 1..Len(ls)} = InputVarNames
            /\ Len(ls) = Cardinality(InputVarNames)
            /\ \A k \in 1..Len(ls) :
                  /\ HasVar(ls[k][1])
                  /\ ls[k][2] = TheVar(ls[k][1]).val
                  /\ ls[k][3] = TheVar(ls[k][1]).vartype

Last(S) == CHOOSE i \in S : \A j \in S : j <= i

\* C19: install() calls build() first exactly when needs_build() holds: when
\* it does not, the install command is the only command run and no file of
\* the build directory changes; when it does, the build commands come before
\* the install command and the "build done" sentinel is the one build()
\* wrote.  Any install command, of the Build or of its dependency copy, is
\* run in a directory that has the "build done" sentinel.
C19_InstallBuildsIfNeeded ==
    [][(ret'.op = "install") =>
          LET nb == needs_build(Me, Now)
              builds == Cmds(cmdlog', "build", "bd")
              installs == Cmds(cmdlog', "install", "bd")
          IN  /\ ~nb => /\ Len(cmdlog') = 1
                        /\ installs = {1}
                        /\ fs' = fs
              /\ (nb /\ installs # {}) =>
                    /\ builds # {}
                    /\ \A i \in builds, j \in installs : i < j
                    /\ fs'["bd"].builddone = File(<<cmdlog'[Last(builds)].cmd>>)
              /\ \A k \in 1..Len(cmdlog') :
                    cmdlog'[k].cmd.kind = "install" =>
                       fs'[cmdlog'[k].cmd.cwd].builddone.present]_vars

\* install() had to build (and configure) first, and did
C19_Witness ==
    /\ ret.op = "install"
    /\ ret.res
    /\ Len(cmdlog) = 3
    /\ cmdlog[1].cmd.kind = "configure"
    /\ cmdlog[2].cmd.kind = "build"
    /\ cmdlog[3].cmd.kind = "install"
    /\ HasSentinel("bd", "builddone")

\* C20: in a call that handles the dependencies (a dependency source is
\* set and the "dependencies done" sentinel is absent), the commands of the
\* dependency copy come first.  When its configure or its build command
\* fails the call raises, nothing else is run and the build directory gets
\* no "dependencies done" sentinel; when they succeed and its install
\* command fails, CMAKE_PREFIX_PATH is set to the install directory, the
\* sentinel is written and the call goes on to the configure command of the
\* Build itself.
C20_DepsInstallFailureSwallowed ==
    [][(ret'.op \in {"configure", "build", "install"} /\ bld.deps /\ ~deps_done(Me, Now)) =>
          LET log == cmdlog'
          IN  /\ Len(log) >= 1
              /\ log[1].cmd.kind = "configure" /\ log[1].cmd.cwd = "dep"
              /\ ~log[1].ok =>
                    /\ ~ret'.res
                    /\ Len(log) = 1
                    /\ ~fs'["bd"].depsdone.present
              /\ log[1].ok =>
                    /\ Len(log) >= 2
                    /\ log[2].cmd.kind = "build" /\ log[2].cmd.cwd = "dep"
                    /\ ~log[2].ok =>
                          /\ ~ret'.res
                          /\ Len(log) = 2
                          /\ ~fs'["bd"].depsdone.present
                    /\ log[2].ok =>
                          /\ Len(log) >= 4
                          /\ log[3].cmd.kind = "install" /\ log[3].cmd.cwd = "dep"
                          /\ log[4].cmd = ConfigureCmd(Me)
                          /\ fs'["bd"].depsdone.present
                          /\ Get(varcache', <<"CMAKE_PREFIX_PATH">>) # 0
                          /\ SamePath(varcache'.vars[Get(varcache', <<"CMAKE_PREFIX_PATH">>)].val,
                                      Me.installdir)]_vars

\* the install command of the dependency copy failed and the Build was
\* configured all the same
C20_Witness ==
    /\ ret.op = "configure"
    /\ ret.res
    /\ Len(cmdlog) = 4
    /\ cmdlog[3].cmd.kind = "install"
    /\ cmdlog[3].cmd.cwd = "dep"
    /\ ~cmdlog[3].ok
    /\ cmdlog[4].ok
    /\ fs["bd"].depsdone.present
    /\ fs["bd"].cfgdone.present

(***************************************************************************)
(* Properties of the tags and directories of the project matrix.           *)
(***************************************************************************)
Builds == mat.builds

\* the five axis values a Build was made from (or adjusted to)
Axes(b) == <<b.system, b.architecture, b.compiler, b.buildtype, b.variant>>

\* the identities joined with the separator, with and without build type
Joined4(b) ==
    b.system \o <<DASH>> \o b.architecture \o <<DASH>> \o mat.names[b.compiler]
        \o <<DASH>> \o b.buildtype
Joined3(b) ==
    b.system \o <<DASH>> \o b.architecture \o <<DASH>> \o mat.names[b.compiler]

Named(v) == v.some /\ v.name # <<>> /\ v.name # <<"none">>

\* C12: the tag of a Build is system, architecture, compiler and build type
\* joined with '-' in this order, followed by '-' and the variant's name
\* exactly when the variant has a non-empty name other than "none".
C12_TagFormat ==
    \A i \in 1..Len(Builds) :
       LET b == Builds[i]
       IN  DisplayTag(mat, i) =
              IF Named(b.variant)
              THEN Joined4(b) \o <<DASH>> \o b.variant.name
              ELSE Joined4(b)

C12_Witness ==
    /\ Len(Builds) = 2
    /\ Builds[1].variant = Variant(<<"none">>)
    /\ Builds[1].tag = <<"linux", DASH, "x86_64", DASH, "gcc5.4", DASH, "Release">>
    /\ Builds[2].variant = Variant(<<"asan">>)
    /\ Builds[2].tag =
          <<"linux", DASH, "x86_64", DASH, "gcc5.4", DASH, "Release", DASH, "asan">>

\* C13: Builds made from the same five axis values have the same tag and the
\* same build directory, and the tag and the build directory of a Build stay
\* as they are while its axis values do, whatever other Builds are made from
\* the same axis value objects.
C13_TagIsFunctionOfAxes ==
    [][/\ \A i, j \in 1..Len(mat'.builds) :
             Axes(mat'.builds[i]) = Axes(mat'.builds[j]) =>
                /\ DisplayTag(mat', i) = DisplayTag(mat', j)
                /\ mat'.builds[i].builddir = mat'.builds[j].builddir
       /\ \A i \in 1..Len(Builds) :
             Axes(mat'.builds[i]) = Axes(Builds[i]) =>
                /\ DisplayTag(mat', i) = DisplayTag(mat, i)
                /\ mat'.builds[i].builddir = Builds[i].builddir]_vars

\* C14: with an IDE multi-config compiler the tag of the build directory
\* leaves out the build type and the display tag keeps it; with any other
\* compiler the two tags are equal and hold the build type.
C14_IdeDirTagOmitsBuildType ==
    \A i \in 1..Len(Builds) :
       LET b == Builds[i]
           suffix == IF Named(b.variant) THEN <<DASH>> \o b.variant.name ELSE <<>>
       IN  IF is_msvc(b.compiler)
           THEN /\ DirTag(mat, i) = Joined3(b) \o suffix
                /\ DisplayTag(mat, i) = Joined4(b) \o suffix
           ELSE /\ DirTag(mat, i) = DisplayTag(mat, i)
                /\ DisplayTag(mat, i) = Joined4(b) \o suffix

\* C15: two Builds of the project whose axis values differ in at least one
\* identity have different build directories.
C15_DirsCollisionFree ==
    \A i, j \in 1..Len(Builds) :
       Axes(Builds[i]) # Axes(Builds[j]) => Builds[i].builddir # Builds[j].builddir

(***************************************************************************)
(* Properties of the flags of a Build.                                     *)
(***************************************************************************)
\* the flags of source i for the last call: its flags of the kind asked
\* for, as the compiler spells them, then its defines when they are asked for
Part(i) ==
    LET src == gf.flagseq[i]
        wf == src[gf.call.which]
    IN  [k \in 1..Len(wf) |-> IF gf.msvc THEN wf[k].vs ELSE wf[k].gcclike]
           \o (IF gf.call.with_defines THEN src.defines ELSE <<>>)

\* C18: the gathered list is the default the tool reports for the variable,
\* when one is asked for and the lookup succeeds, followed by the parts of
\* the global, system, architecture, compiler, build type and variant flag
\* sets in this order; nothing is dropped, merged or moved.
C18_FlagsInSourceOrder ==
    ret.op = "gather" =>
       /\ gf.flags =
             (IF gf.call.sysvar /\ gf.sysinfo.ok THEN <<gf.sysinfo.val>> ELSE <<>>)
                \o Part(1) \o Part(2) \o Part(3) \o Part(4) \o Part(5) \o Part(6)
       /\ Len(gf.flags) =
             (IF gf.call.sysvar /\ gf.sysinfo.ok THEN 1 ELSE 0)
                + Len(Part(1)) + Len(Part(2)) + Len(Part(3))
                + Len(Part(4)) + Len(Part(5)) + Len(Part(6))

\* two sources give the same flag and both copies are kept, after the
\* default of the tool and with the defines of each source after its flags
C18_Witness ==
    /\ ret.op = "gather"
    /\ gf.call = [which |-> "cflags", sysvar |-> TRUE, with_defines |-> TRUE]
    /\ gf.sysinfo.ok
    /\ ~gf.msvc
    /\ gf.flagseq[1].cflags = <<Opt("-Wall", "/Wall")>>
    /\ gf.flagseq[2].cflags = <<Opt("-g", ""), Opt("-Wall", "/Wall")>>
    /\ SubSeq(gf.flags, 1, 6) = <<"-O1", "-Wall", "-g", "-Wall", "-DY", "-DX">>

\* C27: needs_configure() returns true exactly when the build directory is
\* absent, or the "configure done" sentinel is absent, or the cache is dirty
\* while CMakeCache.txt exists; the call changes neither the cache nor any
\* file.
C27_NeedsConfigureExact ==
    [][(ret'.op = "needs_configure") =>
          /\ ret'.res = (\/ ~DirExists(fs, "bd")
                         \/ ~HasSentinel("bd", "cfgdone")
                         \/ (varcache.dirty /\ CacheFileExists(fs, "bd")))
          /\ fs' = fs
          /\ varcache' = varcache]_vars

\* asked of a configured Build whose cache has become dirty
C27_Witness ==
    /\ ret.op = "needs_configure"
    /\ ret.res
    /\ HasSentinel("bd", "cfgdone")
    /\ varcache.dirty
    /\ CacheFileExists(fs, "bd")

\* C29: when a configure command exits non-zero, the call that ran it
\* (configure(), or a build() or install() that had to configure) raises,
\* runs no command after it, and writes neither the "configure done" nor
\* the "build done" sentinel of that build directory.
C29_ConfigureFailurePropagates ==
    [][(ret'.op \in {"configure", "build", "install"}) =>
          \A k \in 1..Len(cmdlog') :
             (cmdlog'[k].cmd.kind = "configure" /\ ~cmdlog'[k].ok) =>
                /\ ~ret'.res
                /\ k = Len(cmdlog')
                /\ fs'[cmdlog'[k].cmd.cwd].cfgdone = fs[cmdlog'[k].cmd.cwd].cfgdone
                /\ fs'[cmdlog'[k].cmd.cwd].builddone = fs[cmdlog'[k].cmd.cwd].builddone]_vars

\* an install() that had to build and configure, whose configure command
\* failed
C29_Witness ==
    /\ ret.op = "install"
    /\ ~ret.res
    /\ Len(cmdlog) >= 1
    /\ cmdlog[Len(cmdlog)].cmd.kind = "configure"
    /\ cmdlog[Len(cmdlog)].cmd.cwd = "bd"
    /\ ~cmdlog[Len(cmdlog)].ok
    /\ ~HasSentinel("bd", "cfgdone")
    /\ ~HasSentinel("bd", "builddone")

\* the paths derived from the axis identities the Build b has
DerivedTag(b) ==
    IF Named(b.variant) THEN Joined4(b) \o <<DASH>> \o b.variant.name ELSE Joined4(b)
DerivedDir(root, b) == <<root, PathSep(windows)>> \o DerivedTag(b)

\* C30: adjust(architecture=a, compiler=c) sets the adjusted flag exactly
\* when a supplied value differs from the current one and never clears it;
\* afterwards the tag, the build directory, the install directory, the path
\* of the preload file and the path of the cache file are those derived
\* from the axis identities the Build then has; with no override, or with
\* values equal to the current ones, the flag, the axis values and all
\* paths stay as they are.
C30_AdjustRecomputesPaths ==
    [][(ret'.op = "adjust") =>
        LET i == ret'.build
            a == ret'.architecture
            c == ret'.compiler
            old == mat.builds[i]
            new == mat'.builds[i]
            ca == a # <<>> /\ a # old.architecture
            cc == c # "" /\ c # old.compiler
        IN  /\ new.adjusted = (old.adjusted \/ ca \/ cc)
            /\ new.architecture = IF a # <<>> THEN a ELSE old.architecture
            /\ new.compiler = IF c # "" THEN c ELSE old.compiler
            /\ new.system = old.system /\ new.buildtype = old.buildtype
            /\ new.variant = old.variant
            /\ new.tag = DerivedTag(new)
            /\ new.builddir = DerivedDir("buildroot", new)
            /\ new.installdir = DerivedDir("installroot", new)
            /\ new.preload_file
                  = DerivedDir("buildroot", new) \o <<PathSep(windows), "cmany_preload.cmake">>
            /\ new.cachefile
                  = DerivedDir("buildroot", new) \o <<PathSep(windows), "CMakeCache.txt">>
            /\ (~ca /\ ~cc) => new = old
            /\ \A j \in 1..Len(mat.builds) : j # i => mat'.builds[j] = mat.builds[j]
            /\ Len(mat'.builds) = Len(mat.builds)]_vars

\* a Build adjusted to another architecture and another compiler
C30_Witness ==
    /\ ret.op = "adjust"
    /\ ret.architecture # <<>> /\ ret.compiler # ""
    /\ mat.builds[ret.build].adjusted
    /\ mat.builds[ret.build].architecture = <<"x86">>
    /\ mat.builds[ret.build].compiler = "vs"
    /\ mat.builds[ret.build].cachefile
          = <<"buildroot", BSL, "windows", DASH, "x86", DASH, "vs2015", DASH, "Release",
              BSL, "CMakeCache.txt">>

(***************************************************************************)
(* Claims about the project of pycmake.                                    *)
(***************************************************************************)
\* the position of Build i in the sequence li (0: not there)
Pos(li, i) == IF \E k \in 1..Len(li) : li[k] = i
              THEN CHOOSE k \in 1..Len(li) : li[k] = i ELSE 0

\* a batch call has just been made
BatchCalled == proj.built /\ proj'.calls = proj.calls + 1 /\ proj'.last.op \in BatchOps

\* C21: a batch operation applies the operation to the selected Builds one
\* at a time in selection order, each at most once, and stops at the first
\* Build whose operation fails; when no Build is selected it runs nothing
\* and changes nothing on disk.
C21_BatchSequential ==
    [][BatchCalled =>
        LET c == proj'.last
        IN  /\ Len(c.trace) <= Len(c.out)
            /\ \A k \in 1..Len(c.trace) : c.trace[k] = c.out[k]
            /\ \A k, l \in 1..Len(c.log) :
                  k < l => Pos(c.trace, c.log[k].cmd.build) <= Pos(c.trace, c.log[l].cmd.build)
            /\ \A k \in 1..Len(c.log) : Pos(c.trace, c.log[k].cmd.build) > 0
            /\ ~c.raised => c.trace = c.out
            /\ \A k \in 1..Len(c.log) : ~c.log[k].ok => k = Len(c.log) /\ c.raised
            /\ c.out = <<>> =>
                  /\ c.log = <<>>
                  /\ proj'.disk = proj.disk
                  /\ proj'.root = proj.root]_vars

\* the Builds of the project, by position
ProjBuilds(p) == 1..Len(p.builds)

\* Build i passes the filters kw: for every axis that has a filter the
\* identity string of the Build's axis value is the filter value
Passes(p, i, kw) ==
    /\ kw.sys.some => AxisStr(p, i, "system") = kw.sys.val
    /\ kw.arch.some => AxisStr(p, i, "architecture") = kw.arch.val
    /\ kw.buildtype.some => AxisStr(p, i, "buildtype") = kw.buildtype.val
    /\ kw.compiler.some => AxisStr(p, i, "compiler") = kw.compiler.val
    /\ kw.variant.some => AxisStr(p, i, "variant") = kw.variant.val

\* C22: select(filters) returns exactly the Builds that pass the filters, in
\* the order of the build list, and leaves the build list as it was.
C22_SelectExact ==
    [][(proj.built /\ proj'.last.op = "select") =>
        LET c == proj'.last
        IN  /\ \A k, l \in 1..Len(c.out) : k < l => c.out[k] < c.out[l]
            /\ {c.out[k] : k \in 1..Len(c.out)}
                  = {i \in ProjBuilds(proj) : Passes(proj, i, c.kw)}
            /\ proj'.builds = proj.builds
            /\ proj'.names = proj.names
            /\ proj'.at = proj.at]_vars

\* a selection by two filters that keeps some Builds and drops others
C22_Witness ==
    /\ proj.built
    /\ proj.last.op = "select"
    /\ proj.last.kw.arch.some /\ proj.last.kw.buildtype.some
    /\ Len(proj.last.out) >= 1
    /\ \E i \in ProjBuilds(proj) :
          /\ AxisStr(proj, i, "architecture") = proj.last.kw.arch.val
          /\ AxisStr(proj, i, "buildtype") # proj.last.kw.buildtype.val

\* the tuples of the cross product of the axis lists of the project (one
\* system, one variant)
Tuples(p) ==
    {[s |-> 1, a |-> a, c |-> c, m |-> m, v |-> 1] :
        a \in 1..Len(p.architectures), c \in 1..Len(p.compilers),
        m \in 1..Len(p.buildtypes)}

\* how often Build i is in the group g
Count(g, i) == Cardinality({k \in 1..Len(g) : g[k] = i})

\* C23: after the construction of the project the build list holds exactly
\* one Build for every valid tuple of the cross product of the axis lists
\* and none for any other, and every Build is exactly once in the group of
\* each of its five axis values.
C23_MatrixIsCrossProduct ==
    proj.built =>
        /\ \A t \in Tuples(proj) :
              Cardinality({i \in ProjBuilds(proj) : proj.at[i] = t})
                 = IF is_valid(t.a, t.c, t.m) THEN 1 ELSE 0
        /\ \A i \in ProjBuilds(proj) :
              /\ proj.at[i] \in Tuples(proj)
              /\ proj.builds[i].architecture = proj.architectures[proj.at[i].a]
              /\ proj.builds[i].compiler = proj.compilers[proj.at[i].c]
              /\ proj.builds[i].buildtype = proj.buildtypes[proj.at[i].m]
              /\ ~proj.builds[i].variant.some
              /\ Count(proj.system_builds[proj.at[i].s], i) = 1
              /\ Count(proj.architecture_builds[proj.at[i].a], i) = 1
              /\ Count(proj.compiler_builds[proj.at[i].c], i) = 1
              /\ Count(proj.buildtype_builds[proj.at[i].m], i) = 1
              /\ Count(proj.variant_builds[proj.at[i].v], i) = 1

\* a project of two architectures, two compilers and two build types
C23_Witness ==
    /\ proj.built
    /\ Len(proj.architectures) = 2 /\ Len(proj.compilers) = 2
    /\ Len(proj.buildtypes) = 2
    /\ Len(proj.builds) = 8

\* the key of the group lookup made by cbm under which the i-th axis value
\* of the list li is found
KeyOf(li, i) == CHOOSE k \in DOMAIN cbm(li) : BuildItem_eq(k, i)

\* C24: two axis values of one kind are equal, and are one key of the
\* group lookup of their axis, if and only if their names are equal.
C24_EqualByName ==
    proj.built =>
        \A i, j \in 1..Len(proj.architectures) :
            (/\ BuildItem_eq(i, j)
             /\ KeyOf(proj.architectures, i) = KeyOf(proj.architectures, j)
             /\ DOMAIN proj.architecture_builds = DOMAIN cbm(proj.architectures))
               <=> proj.architectures[i] = proj.architectures[j]

(***************************************************************************)
(* Claims about the raw variable assignments.                              *)
(***************************************************************************)
\* the strings of the six flag sources in the order they are gathered
RECURSIVE AllVars(_)
AllVars(flagseq) ==
    IF flagseq = <<>> THEN <<>>
    ELSE Head(flagseq).cmake_vars \o AllVars(Tail(flagseq))

\* the parts of a string NAME=VALUE or NAME:TYPE=VALUE: the name part ends
\* at the first '=', the value is all the text after it
NamePart(v) == SubSeq(v, 1, FirstFrom(v, EQ, 1) - 1)
Colons(t) == Cardinality({i \in 1..Len(t) : t[i] = COLON})
HasEq(v) == FirstFrom(v, EQ, 1) # 0
IsTyped(v) == HasEq(v) /\ Colons(NamePart(v)) = 1
IsUntyped(v) == HasEq(v) /\ Colons(NamePart(v)) = 0
RawName(v) ==
    IF IsTyped(v) THEN SubSeq(NamePart(v), 1, FirstFrom(NamePart(v), COLON, 1) - 1)
    ELSE NamePart(v)
RawType(v) ==
    SubSeq(NamePart(v), FirstFrom(NamePart(v), COLON, 1) + 1, Len(NamePart(v)))
RawValue(v) == SubSeq(v, FirstFrom(v, EQ, 1) + 1, Len(v))

\* the Build has been constructed, or its construction has raised
Constructed == ret.op = "construct"

\* C25: when every string of the six flag sources is of the form NAME=VALUE
\* or NAME:TYPE=VALUE, the construction of the Build records for each of
\* them (the last one of a name counts) a cache variable NAME whose value
\* is all the text after the first '=' and whose type is TYPE when given.
C25_RawAssignmentsRecorded ==
    LET vs == AllVars(get_flagseq(gf))
    IN  (Constructed /\ \A k \in 1..Len(vs) : IsTyped(vs[k]) \/ IsUntyped(vs[k])) =>
          /\ ret.res
          /\ \A k \in 1..Len(vs) :
                (\A l \in (k + 1)..Len(vs) : RawName(vs[l]) # RawName(vs[k])) =>
                   /\ HasVar(RawName(vs[k]))
                   /\ TheVar(RawName(vs[k])).val = RawValue(vs[k])
                   /\ IsTyped(vs[k]) => TheVar(RawName(vs[k])).vartype = RawType(vs[k])

\* the text t holds the string v
Holds(t, v) == \E i \in 1..Len(t) : SubSeq(t, i, i + Len(v) - 1) = v

\* C26: a string without '=' (the strings before it being typed
\* assignments) is rejected with an error that names it, and no cache
\* variable is created or changed for it.
C26_NoEqualsRejected ==
    LET vs == AllVars(get_flagseq(gf))
    IN  \A k \in 1..Len(vs) :
          (/\ Constructed
           /\ ~HasEq(vs[k])
           /\ \A l \in 1..(k - 1) : IsTyped(vs[l])) =>
             /\ ~ret.res
             /\ ret.error.type = "Exception"
             /\ Holds(ret.error.text, vs[k])
             /\ varcache =
                   gather_cmake_vars_of(
                       [cache |-> CMakeCache(fs, "bd"), raised |-> FALSE, error |-> NoError],
                       SubSeq(vs, 1, k - 1)).cache

\* the build commands of a log, in order
BuildCmds(log) == SelectSeq(log, LAMBDA e : e.cmd.kind = "build")

\* the targets build(targets) is to make: the default when none is given
TargetsToMake(msvc, targets) ==
    IF targets = <<>> THEN IF msvc THEN <<"ALL_BUILD">> ELSE <<"all">>
    ELSE targets

\* C28: build(targets) runs the tool once per target, in the order of the
\* list (of ["ALL_BUILD"] for the IDE toolchain and ["all"] otherwise when
\* the list is empty); the "build done" sentinel is written only after the
\* command of every target has succeeded and records the last command; a
\* failing target ends the call without the sentinel being written.
C28_OneCommandPerTarget ==
    [][(proj.built /\ proj'.calls = proj.calls + 1 /\ proj'.last.op = "build_one") =>
        LET i == proj'.last.out[1]
            d == Home(proj, i)
            todo == TargetsToMake(is_msvc(proj.builds[i].compiler), proj'.last.targets)
            run == BuildCmds(proj'.last.log)
        IN  /\ Len(run) <= Len(todo)
            /\ \A k \in 1..Len(run) : run[k].cmd.targets = <<todo[k]>>
            /\ \A k \in 1..Len(run) : ~run[k].ok => k = Len(run)
            /\ IF ~proj'.last.raised
               THEN /\ Len(run) = Len(todo)
                    /\ proj'.disk[d].builddone = File(<<run[Len(run)].cmd>>)
               ELSE proj'.disk[d].builddone = proj.disk[d].builddone]_vars

(***************************************************************************)
(* Claims about the dependency sub-build.                                  *)
(***************************************************************************)
\* the values the directives of a preload file give to the variable name
Directives(pre, name) ==
    {pre.lines[i][2] : i \in {j \in 1..Len(pre.lines) : pre.lines[j][1] = name}}

\* the values the records of the CMakeCache.txt of directory d give to name
CacheRecords(f, d, name) ==
    IF ~CacheFileExists(f, d) THEN {}
    ELSE {Group3(f[d].cachefile.lines[i]) :
             i \in {j \in 1..Len(f[d].cachefile.lines) :
                       /\ cache_entry_match(f[d].cachefile.lines[j])
                       /\ Group1(f[d].cachefile.lines[j]) = name}}

\* the configure commands of the last call that ran in the directory d
ConfiguresIn(d) ==
    {k \in 1..Len(cmdlog) : cmdlog[k].cmd.kind = "configure" /\ cmdlog[k].cmd.cwd = d}

\* C31: whenever the dependency copy is configured, the CMAKE_INSTALL_PREFIX
\* handed to the tool, through the preload file it reads or through the cache
\* of the sub-build directory, is the deps_prefix of the parent Build.
C31_DepsInstallPrefix ==
    \A k \in ConfiguresIn("dep") :
       \/ \E v \in Directives(cmdlog[k].seen, <<"CMAKE_INSTALL_PREFIX">>) :
             SamePath(v, Me.deps_prefix)
       \/ \E v \in CacheRecords(fs, "dep", <<"CMAKE_INSTALL_PREFIX">>) :
             SamePath(v, Me.deps_prefix)

\* the commands of the last call that ran in the directory d
RanIn(d) == {k \in 1..Len(cmdlog) : cmdlog[k].cmd.cwd = d}

\* C32: dependency handling does not recurse: the dependency copy never
\* starts a sub-build of its own, so no directory nested in the sub-build
\* directory is made, no command runs there, and the copy's own dependency
\* handling only writes its sentinel.
C32_DepsDoNotRecurse ==
    /\ ~DirExists(fs, "dep2")
    /\ RanIn("dep2") = {}
    /\ \A k \in 1..Len(cmdlog) : cmdlog[k].cmd.cwd \in {"bd", "dep"}
    /\ RanIn("dep") # {} => Me.deps

C32_Witness ==
    /\ ret.op = "configure" /\ ret.res
    /\ Me.deps
    /\ RanIn("dep") # {}
    /\ HasSentinel("dep", "depsdone")
    /\ HasSentinel("bd", "depsdone")
    /\ ~DirExists(fs, "dep2")

\* the positions of the log that hold a command of the given kind run in d
KindIn(log, kind, d) ==
    {k \in 1..Len(log) : log[k].cmd.kind = kind /\ log[k].cmd.cwd = d}

\* the commands run in d form one block of the log, which starts with a
\* configure command
OneBlock(log, d) ==
    LET S == {k \in 1..Len(log) : log[k].cmd.cwd = d}
    IN  /\ \A i \in S, j \in S : \A k \in i..j : k \in S
        /\ \A i \in S : (\A j \in S : i <= j) => log[i].cmd.kind = "configure"

LifecycleOps == {"configure", "build", "install", "clean"}

\* C33 as stated: over any sequence of calls the sub-build runs at most
\* once, that is, once it has been started (its directory exists) no later
\* call runs a command of it.
C33_DepsAtMostOnce ==
    [][(ret'.op \in LifecycleOps /\ DirExists(fs, "dep")) =>
          \A k \in 1..Len(cmdlog') : cmdlog'[k].cmd.cwd # "dep"]_vars

\* C33: the sub-build runs only while cmany_deps.done is absent and at most
\* once in a call; once the sentinel is written it stays and no later call
\* runs the sub-build; a build() on a fresh directory runs it exactly once,
\* before the Build's own configure command.
C33_DepsOncePerSentinel ==
    [][ret'.op \in LifecycleOps =>
          /\ HasSentinel("bd", "depsdone") =>
                /\ \A k \in 1..Len(cmdlog') : cmdlog'[k].cmd.cwd # "dep"
                /\ fs'["bd"].depsdone = fs["bd"].depsdone
          /\ OneBlock(cmdlog', "dep")
          /\ Cardinality(KindIn(cmdlog', "install", "dep")) <= 1
          /\ (Me.deps /\ fs = FreshDisk /\ ret'.op = "build") =>
                /\ KindIn(cmdlog', "configure", "dep") # {}
                /\ cmdlog'[1].cmd.cwd = "dep"
                /\ ret'.res => /\ Cardinality(KindIn(cmdlog', "configure", "dep")) = 1
                               /\ Cardinality(KindIn(cmdlog', "configure", "bd")) = 1
                               /\ fs'["bd"].depsdone.present]_vars

C33_Witness ==
    /\ ret.op = "build" /\ ret.res
    /\ Me.deps
    /\ Cardinality(KindIn(cmdlog, "configure", "dep")) = 1
    /\ Cardinality(KindIn(cmdlog, "configure", "bd")) = 1
    /\ KindIn(cmdlog, "build", "bd") # {}
    /\ HasSentinel("bd", "depsdone")

(***************************************************************************)
(* Claims about the scoped directory change.                               *)
(***************************************************************************)
\* the cwd_back object of the innermost open block
Innermost(pr) == pr.stack[Len(pr.stack)]

\* C34: leaving a cwd_back block, normally or by an error and however the
\* blocks are nested, puts the process back in the directory it was in at
\* entry; when the target is the directory the process is already in, entry
\* and exit change nothing and print no message.
C34_ScopedCwd ==
    [][/\ Len(process'.stack) < Len(process.stack) =>
             /\ process'.cwd = Innermost(process).old
             /\ realpath(Innermost(process).dir) = Innermost(process).old =>
                   process'.out = <<>> /\ process'.cwd = process.cwd
       /\ (/\ Len(process'.stack) > Len(process.stack)
           /\ realpath(Innermost(process').dir) = process.cwd) =>
                process'.out = <<>> /\ process'.cwd = process.cwd
       /\ Len(process'.stack) = Len(process.stack) => process'.cwd = process.cwd]_vars

(***************************************************************************)
(* Claims about the option presets.                                        *)
(***************************************************************************)
\* C35: resolving a preset against a compiler gives the IDE-toolchain token
\* of its row when the compiler is of the IDE-toolchain family and the
\* GCC-compatible token otherwise, the same answer on every call for the
\* same preset and compiler; a name that is not in the table raises and
\* gives no token.
C35_PresetResolution ==
    /\ ret.op = "preset" =>
          IF ret.name \in DOMAIN option_presets
          THEN /\ ~ret.raised
               /\ ret.compiler = "vs" => ret.token = option_presets[ret.name].vs
               /\ ret.compiler # "vs" => ret.token = option_presets[ret.name].gcclike
          ELSE ret.raised /\ ret.token = ""
    /\ \A x \in base, y \in base : (x[1] = y[1] /\ x[2] = y[2]) => x[3] = y[3]
    /\ \A x \in base : x[3].raised <=> x[1] \notin DOMAIN option_presets

C35_Witness ==
    /\ ret.op = "preset" /\ ret.n = MaxLookups
    /\ ret.name = "pedantic" /\ ret.compiler = "vs" /\ ret.token = "/W4"
    /\ \E x \in base : x[1] = "pedantic" /\ x[2] = "gcc" /\ x[3].token = "-Wpedantic"
    /\ \E x \in base : x[1] = "cpp17" /\ x[3].raised

(***************************************************************************)
(* Claims about the sentinels of the build directory.                      *)
(***************************************************************************)
\* C36: in every state of a build directory reached by configure, build,
\* install and clean calls, whichever commands fail, cmany_build.done is
\* only there when cmany_configure.done is there.
C36_BuildDoneImpliesConfigureDone ==
    \A d \in Dirs : HasSentinel(d, "builddone") => HasSentinel(d, "cfgdone")

C36_Witness ==
    /\ ret.op = "build" /\ ~ret.res
    /\ HasSentinel("bd", "builddone")
    /\ HasSentinel("bd", "cfgdone")

(***************************************************************************)
(* Claims about repeated calls on one Build.                               *)
(***************************************************************************)
\* the cache is clean and needs_configure() is false
Converged == AllClean(varcache) /\ ~needs_configure(Me, Now)

\* C37: with every command succeeding, repeated configure() and build()
\* calls on one Build reach, after at most two configure runs, a state in
\* which the cache is clean and needs_configure() is false; from then on the
\* state stays so and build() never runs the configure command again.
C37_ReconciliationConverges ==
    [][ret'.op \in {"configure", "build"} =>
          /\ ret'.res
          /\ ret'.runs >= 2 => Converged'
          /\ Converged => Converged'
          /\ (Converged /\ ret'.op = "build") => OwnConfigures(cmdlog') = 0]_vars

C37_Witness ==
    /\ ret.op = "build" /\ ret.runs = 2
    /\ Converged
    /\ OwnConfigures(cmdlog) = 0
    /\ cmdlog # <<>>

(***************************************************************************)
(* Claims about what dependency handling leaves behind.                    *)
(***************************************************************************)
\* C38: after handle_deps has returned, the generator of the Build still
\* refers to the Build and not to its dependency copy, and the commands the
\* Build then runs in its own directory are computed from the Build's own
\* project directory, preload file and generator.
C38_GeneratorStaysWithParent ==
    /\ bld.genbuild = "self"
    /\ \A k \in RanIn("bd") : /\ cmdlog[k].cmd.gen = "self"
                              /\ cmdlog[k].cmd.proj = Me.projdir
                              /\ cmdlog[k].cmd.preload = Me.preload

\* the variable v reaches the tool that reads the preload file pre and the
\* CMakeCache.txt of directory d: as a directive or as a record, with the
\* value it has in memory
Delivered(v, pre, f, d) ==
    \/ v.val \in Directives(pre, v.name)
    \/ v.val \in CacheRecords(f, d, v.name)

\* C39: whenever configure() invokes the tool, every cache variable that is
\* dirty at that moment reaches the tool with its in-memory value, through
\* the preload file or through the persisted cache file; CMAKE_PREFIX_PATH
\* set by dependency handling on a fresh build directory is among them.
C39_DirtyVarsDelivered ==
    [][(/\ ret'.op = "configure"
        /\ cmdlog' # <<>>
        /\ cmdlog'[Len(cmdlog')].cmd.kind = "configure"
        /\ cmdlog'[Len(cmdlog')].cmd.cwd = "bd") =>
          \A i \in 1..Len(varcache'.vars) :
             varcache'.vars[i].dirty =>
                Delivered(varcache'.vars[i], cmdlog'[Len(cmdlog')].seen, fs', "bd")]_vars

(***************************************************************************)
(* Claims about clean().                                                   *)
(***************************************************************************)
\* C40: clean() returns without error whenever its clean command succeeds,
\* whatever the state of the build directory, also when cmany_build.done is
\* not there (never built, or cleaned before).
C40_CleanNeverFailsOnItsOwn ==
    [][(/\ ret'.op = "clean"
        /\ \A k \in 1..Len(cmdlog') : cmdlog'[k].ok) => ret'.res]_vars

====
